---- MODULE Spec2Model ----
(***************************************************************************)
(* A model of theano/compile/debugmode.py: the DebugMode constructor, the  *)
(* optimizer stability loop of _Maker.__init__, the callbacks of           *)
(* _VariableEquivalenceTracker, and the evaluation function f() built by   *)
(* _Linker.make_all together with the checks it calls (_check_inputs,      *)
(* _check_viewmap, _find_bad_optimizations0).                              *)
(*                                                                         *)
(* Indices of input and output positions are 0-based, as in the source.    *)
(***************************************************************************)
EXTENDS Integers, Sequences, FiniteSets, TLC

\* Valid value contents are 0..MaxVal; -1 is a content the type rejects.
MaxVal == 2

\* ------------------------------------------------------------------------
\* Values: Python objects and the memory they use.
\* ------------------------------------------------------------------------

\* A reference to an object: its identity (id()), the buffer holding its
\* data, and numpy's OWNDATA flag.  Names are <<tag, node, variable>>.
NoneRef == [id |-> <<"None", 0, "">>, buf |-> <<"None", 0, "">>, own |-> TRUE]

NewObj(tag, n, v) == [id |-> <<tag, n, v>>, buf |-> <<tag, n, v>>, own |-> TRUE]

NewView(tag, n, v, base) == [id |-> <<tag, n, v>>, buf |-> base.buf, own |-> FALSE]

Contents == (-1)..MaxVal

ValidContents == 0..MaxVal

\* The content of a value, for diagnostics (-2 stands for None).
ContentOf(m, ref) == IF ref = NoneRef THEN -2 ELSE m[ref.buf]

\* r.type.is_valid_value(v)
IsValidValue(m, ref) == ref # NoneRef /\ m[ref.buf] >= 0

\* r.type.values_eq_approx(a, b): reflexive and symmetric, not transitive.
ValuesEqApprox(m, p, q) ==
    /\ p # NoneRef
    /\ q # NoneRef
    /\ m[p.buf] - m[q.buf] <= 1
    /\ m[q.buf] - m[p.buf] <= 1

\* _may_share_memory(a, b): both have __array_interface__ and numpy says
\* their memory may overlap.
MayShareMemory(isarr, p, q) ==
    /\ isarr
    /\ p # NoneRef
    /\ q # NoneRef
    /\ p.buf = q.buf

\* the fault of a copy that is a new object over the buffer of the original
ShallowCopy(m, ref, tag, n, v) == <<NewView(tag, n, v, ref), m>>

\* _lessbroken_deepcopy(a): a new object with a buffer of its own holding
\* the same content.  Result is <<ref, mem>>.
LessbrokenDeepcopy(m, ref, tag, n, v) ==
    LET new == NewObj(tag, n, v)
    IN  <<new, (new.buf :> m[ref.buf]) @@ m>>

Restrict(m, S) == [b \in (DOMAIN m) \cap S |-> m[b]]

Range(s) == {s[i] : i \in DOMAIN s}

\* ------------------------------------------------------------------------
\* The graph: two nodes over five variables.  x is the graph input, y a
\* constant; node 1 computes a from (x, y); node 2 computes (b, b2).
\* ------------------------------------------------------------------------

Variables == {"x", "y", "a", "b", "b2"}

Nodes == {1, 2}

\* r.owner (0: the variable has no owner)
OwnerOf == [v \in Variables |->
              CASE v = "a" -> 1
                [] v \in {"b", "b2"} -> 2
                [] OTHER -> 0]

TypeOf == [v \in Variables |-> IF v \in {"y", "b2"} THEN "U" ELSE "T"]

OwnerLess == {v \in Variables : OwnerOf[v] = 0}

EnvInputs == <<"x">>

NodeOutputs(n) == IF n = 1 THEN <<"a">> ELSE <<"b", "b2">>

NodeInputs(e, n) == IF n = 1 THEN <<"x", "y">> ELSE e.n2in

\* graph.io_toposort(env.inputs, all_variables_ever reversed)
order == <<1, 2>>

RECURSIVE Ancestors(_, _)
Ancestors(e, S) ==
    LET T == S \cup {OwnerOf[v] : v \in UNION {Range(NodeInputs(e, n)) : n \in S}}
        U == T \ {0}
    IN  IF U = S THEN S ELSE Ancestors(e, U)

\* set(env.toposort()): the nodes the designated outputs depend on
ActiveOrderSet(e) == Ancestors(e, {OwnerOf[v] : v \in Range(e.outputs)} \ {0})

\* r.clients: (node, index) pairs of the active consumers, and
\* ('output', k) for the k-th designated output, written <<0, k>>.
Clients(e, v) ==
    LET consumers == {c \in ActiveOrderSet(e) \X (0..1) :
                         NodeInputs(e, c[1])[c[2] + 1] = v}
        designated == {<<0, k - 1>> : k \in {j \in DOMAIN e.outputs : e.outputs[j] = v}}
    IN  consumers \cup designated

\* ------------------------------------------------------------------------
\* State.
\* ------------------------------------------------------------------------

VARIABLES
    mode,         \* the DebugMode: check_c_code, check_py_code, stability_patience
    env,          \* the optimized graph handed to the linker
    isarr,        \* values are numpy.ndarray (TRUE) or generic objects
    thunks_py,    \* node -> the node has a perform thunk
    thunks_c,     \* node -> the node has a compiled thunk (FALSE: None)
    storage_map,  \* variable -> content of its storage cell
    mem,          \* buffer -> content
    r_vals,       \* variable -> value (the domain is the set of keys)
    dr_vals,      \* variable -> [val, node]
    pc,           \* position in f()
    ni,           \* index in order of the node being evaluated
    err,          \* the exception f() raised
    supplied,     \* variable -> the content its cell held when f() was called
    args,         \* the arguments of DebugMode(...)
    accept_inplace, \* the argument of _Maker(...)
    source,       \* the source graph: per node, the destroy_map of its op
    mpc,          \* position in DebugMode.__init__ / _Maker.__init__
    run,          \* the loop variable i of the stability loop
    l0,           \* env0.equivalence_tracker.event_list
    li,           \* env.equivalence_tracker.event_list
    runs,         \* how many times optimizer(env) has been called
    kept,         \* the run whose graph is self.env (-1: none)
    merr,         \* the exception the constructors raised
    post_vals,    \* history: the destroyed graph inputs and their contents
    equiv,        \* tracker: variable -> the set object it references
    classes,      \* tracker: set object -> its members
    active_nodes, \* tracker: the nodes imported and not pruned since
    inactive_nodes, \* tracker: the pruned nodes
    all_variables_ever, \* tracker: the list of the variables seen
    tracker_reasons, \* tracker.reasons: variable -> list of (reason, r)
    replaced_by,  \* tracker: variable -> list of (reason, new_r)
    event_list,   \* tracker: the list of the events
    tpc,          \* tracker: "detached", "attached", or the exception raised
    linkers,      \* the _Linker objects: [env, maker, no_recycling]
    accepted      \* the last call of _Linker.accept and its outcome

mvars == <<args, accept_inplace, source, mpc, run, l0, li, runs, kept, merr>>

fvars == <<mode, env, isarr, thunks_py, thunks_c, storage_map, mem, r_vals,
           dr_vals, pc, ni, err, supplied, post_vals>>

tvars == <<equiv, classes, active_nodes, inactive_nodes, all_variables_ever,
           tracker_reasons, replaced_by, event_list, tpc>>

lvars == <<linkers, accepted>>

vars == <<mvars, fvars, tvars, lvars>>

\* ------------------------------------------------------------------------
\* Exceptions.
\* ------------------------------------------------------------------------

Err(kind, node, idx, r, r2, v1, v2, reason, aliases) ==
    [kind |-> kind, node |-> node, idx |-> idx, r |-> r, r2 |-> r2,
     v1 |-> v1, v2 |-> v2, reason |-> reason, aliases |-> aliases]

NoErr == Err("", 0, -1, "", "", -2, -2, "", {})

PlainErr(kind) == Err(kind, 0, -1, "", "", -2, -2, "", {})

\* the fault of naming the variable without its value
InvalidValueErrorNoValue(m, r, ref) ==
    Err("InvalidValueError", 0, -1, r, "", -2, -2, "", {})

InvalidValueError(m, r, ref) ==
    Err("InvalidValueError", 0, -1, r, "", ContentOf(m, ref), -2, "", {})

BadDestroyMap(m, node, idx, old, new) ==
    Err("BadDestroyMap", node, idx, "", "", ContentOf(m, old), ContentOf(m, new), "", {})

\* in_alias_idx is given as aliases, out_alias_idx as idx
BadViewMap(m, node, output_idx, out, in_alias, out_alias) ==
    Err("BadViewMap", node, out_alias, NodeOutputs(node)[output_idx + 1], "",
        ContentOf(m, out), -2, "", in_alias)

\* the fault of passing val_c for val_py and val_py for val_c
BadCLinkerOutputSwapped(m, r, val_py, val_c) ==
    Err("BadCLinkerOutput", 0, -1, r, "", ContentOf(m, val_c), ContentOf(m, val_py), "", {})

BadCLinkerOutput(m, r, val_py, val_c) ==
    Err("BadCLinkerOutput", 0, -1, r, "", ContentOf(m, val_py), ContentOf(m, val_c), "", {})

BadOptimization(m, old_r, new_r, old_val, new_val, reason) ==
    Err("BadOptimization", 0, -1, old_r, new_r, ContentOf(m, old_val),
        ContentOf(m, new_val), reason, {})

\* ------------------------------------------------------------------------
\* The checks f() calls.
\* ------------------------------------------------------------------------

DestroyedIdxList(e, n) ==
    UNION {Range(e.destroy_map[n][o]) : o \in DOMAIN e.destroy_map[n]}

\* the fault of taking every input for a declared one
DestroyedResListAll(e, n) == Range(NodeInputs(e, n))

DestroyedResList(e, n) == {NodeInputs(e, n)[i + 1] : i \in DestroyedIdxList(e, n)}

\* _check_inputs, from input position r_idx on.  Result: [sm, dv, err].
RECURSIVE CheckInputsFrom(_, _, _, _, _, _, _, _)
CheckInputsFrom(e, n, r_idx, sm, dv, rv, m, clobber_dr_vals) ==
    IF r_idx >= Len(NodeInputs(e, n))
    THEN [sm |-> sm, dv |-> dv, err |-> NoErr]
    ELSE
      LET r == NodeInputs(e, n)[r_idx + 1] IN
      IF ValuesEqApprox(m, rv[r], sm[r])
      THEN CheckInputsFrom(e, n, r_idx + 1, sm, dv, rv, m, clobber_dr_vals)
      ELSE
        IF r \in DestroyedResList(e, n)
        THEN
          IF n \in ActiveOrderSet(e)
          THEN
            IF r \in DOMAIN dv /\ dv[r].node # n
            THEN [sm |-> sm, dv |-> dv,
                  err |-> PlainErr("failure in topological ordering")]
            ELSE
              LET dv1 == IF clobber_dr_vals
                         THEN (r :> [val |-> sm[r], node |-> n]) @@ dv
                         ELSE dv
                  sm1 == [sm EXCEPT ![r] = NoneRef]
              IN  CheckInputsFrom(e, n, r_idx + 1, sm1, dv1, rv, m, clobber_dr_vals)
          ELSE CheckInputsFrom(e, n, r_idx + 1, sm, dv, rv, m, clobber_dr_vals)
        ELSE [sm |-> sm, dv |-> dv,
              err |-> BadDestroyMap(m, n, r_idx, rv[r], sm[r])]

CheckInputs(e, n, sm, dv, rv, m, clobber_dr_vals) ==
    CheckInputsFrom(e, n, 0, sm, dv, rv, m, clobber_dr_vals)

\* _is_function_output(node)
IsFunctionOutput(e, v) == Clients(e, v) = {<<0, 1>>}

\* _is_used_in_graph(node)
IsUsedInGraph(e, v) == ~(IsFunctionOutput(e, v) \/ Clients(e, v) = {})

\* [ii] == view_map.get(oi) or [ii] == destroy_map.get(oi)
DeclaredAlias(e, n, oi, ii) ==
    \/ oi \in DOMAIN e.view_map[n] /\ e.view_map[n][oi] = <<ii>>
    \/ oi \in DOMAIN e.destroy_map[n] /\ e.destroy_map[n][oi] = <<ii>>

InputPositions(e, n) == 0..(Len(NodeInputs(e, n)) - 1)

OutputPositions(n) == 0..(Len(NodeOutputs(n)) - 1)

\* danger_flag of _check_viewmap
DangerFlag(e, n, sm, arr, out) ==
    \/ out.id \in {sm[r].id : r \in Range(NodeInputs(e, n))}
    \/ (arr /\ out # NoneRef /\ ~out.own)

\* the input positions whose cell _may_share_memory with the output
SharingInputs(e, n, sm, arr, out) ==
    {ii \in InputPositions(e, n) : MayShareMemory(arr, out, sm[NodeInputs(e, n)[ii + 1]])}

\* good_alias of _check_viewmap, as the set of its keys (variables)
GoodAlias(e, n, oi, sm, arr) ==
    LET out == sm[NodeOutputs(n)[oi + 1]] IN
    IF DangerFlag(e, n, sm, arr, out)
    THEN {NodeInputs(e, n)[ii + 1] : ii \in
             {jj \in SharingInputs(e, n, sm, arr, out) : DeclaredAlias(e, n, oi, jj)}}
    ELSE {}

\* bad_alias.values() of _check_viewmap after the good keys are popped
BadAlias(e, n, oi, sm, arr) ==
    LET out == sm[NodeOutputs(n)[oi + 1]]
        sharing == SharingInputs(e, n, sm, arr, out)
        good == GoodAlias(e, n, oi, sm, arr)
    IN  IF DangerFlag(e, n, sm, arr, out)
        THEN {ii \in sharing :
                /\ NodeInputs(e, n)[ii + 1] \notin good
                /\ \A jj \in sharing :
                     NodeInputs(e, n)[jj + 1] = NodeInputs(e, n)[ii + 1] => jj <= ii}
        ELSE {}

\* the other outputs that are used and share memory with output oi
AliasedOutputs(e, n, oi, sm, arr) ==
    {other_oi \in OutputPositions(n) \ {oi} :
        /\ IsUsedInGraph(e, NodeOutputs(n)[other_oi + 1])
        /\ MayShareMemory(arr, sm[NodeOutputs(n)[oi + 1]], sm[NodeOutputs(n)[other_oi + 1]])}

Min(S) == CHOOSE i \in S : \A j \in S : i <= j

\* _check_viewmap, from output position oi on.  Result: the exception or NoErr.
RECURSIVE CheckViewmapFrom(_, _, _, _, _, _)
CheckViewmapFrom(e, n, oi, sm, m, arr) ==
    IF oi >= Len(NodeOutputs(n)) THEN NoErr
    ELSE
      LET onode == NodeOutputs(n)[oi + 1]
          bad == BadAlias(e, n, oi, sm, arr)
          good == GoodAlias(e, n, oi, sm, arr)
          others == AliasedOutputs(e, n, oi, sm, arr)
      IN  IF bad # {}
          THEN BadViewMap(m, n, oi, sm[onode], bad, -1)
          ELSE IF good = {} /\ IsUsedInGraph(e, onode) /\ others # {}
          THEN BadViewMap(m, n, oi, sm[onode], {}, Min(others))
          ELSE CheckViewmapFrom(e, n, oi + 1, sm, m, arr)

CheckViewmap(e, n, sm, m, arr) == CheckViewmapFrom(e, n, 0, sm, m, arr)

\* The reason-chain entries _find_bad_optimizations0 visits, in its order:
\* for node in order, for new_r in node.outputs, for entry in reasons[new_r].
RECURSIVE ReasonChecks(_, _)
ReasonChecks(reasons, vs) ==
    IF vs = <<>> THEN <<>>
    ELSE [i \in DOMAIN reasons[Head(vs)] |->
             [new_r |-> Head(vs), reason |-> reasons[Head(vs)][i].reason,
              r |-> reasons[Head(vs)][i].r]]
         \o ReasonChecks(reasons, Tail(vs))

RECURSIVE OrderOutputs(_)
OrderOutputs(ord) ==
    IF ord = <<>> THEN <<>> ELSE NodeOutputs(Head(ord)) \o OrderOutputs(Tail(ord))

\* One reason-chain entry of _find_bad_optimizations0.
BadOptimizationCheck(c, rv, m) ==
    IF c.new_r \notin DOMAIN rv \/ c.r \notin DOMAIN rv
    THEN PlainErr("KeyError")
    ELSE IF TypeOf[c.r] # TypeOf[c.new_r]
    THEN PlainErr("AssertionError")
    ELSE IF ~ValuesEqApprox(m, rv[c.r], rv[c.new_r])
    THEN BadOptimization(m, c.r, c.new_r, rv[c.r], rv[c.new_r], c.reason)
    ELSE NoErr

RECURSIVE FirstError(_, _, _)
FirstError(checks, rv, m) ==
    IF checks = <<>> THEN NoErr
    ELSE LET x == BadOptimizationCheck(Head(checks), rv, m)
         IN  IF x # NoErr THEN x ELSE FirstError(Tail(checks), rv, m)

\* _find_bad_optimizations0(order, reasons, r_vals): the exception or NoErr
FindBadOptimizations0(ord, reasons, rv, m) ==
    FirstError(ReasonChecks(reasons, OrderOutputs(ord)), rv, m)

\* _find_bad_optimizations1, lines 415-425: the sets of variables that are
\* supposed to be equivalent, as a function from the variables met to sets.
SetDefaultSet(es, v) == IF v \in DOMAIN es THEN es ELSE es @@ (v :> {v})

\* Lines 422-425 for the entries of reasons[new_r].
RECURSIVE MergeEntries(_, _, _)
MergeEntries(es, new_r, entries) ==
    IF entries = <<>> THEN es
    ELSE LET e1 == SetDefaultSet(es, Head(entries).r)
             s == e1[new_r] \cup e1[Head(entries).r]
         IN  MergeEntries([v \in DOMAIN e1 |-> IF v \in s THEN s ELSE e1[v]],
                          new_r, Tail(entries))

RECURSIVE EquivalenceSets(_, _, _)
EquivalenceSets(es, reasons, vs) ==
    IF vs = <<>> THEN es
    ELSE EquivalenceSets(
             MergeEntries(SetDefaultSet(es, Head(vs)), Head(vs), reasons[Head(vs)]),
             reasons, Tail(vs))

\* The orders in which a Python set of variables may be iterated (line 435).
IterationOrders(S) ==
    {p \in [1..Cardinality(S) -> S] : \A i, j \in DOMAIN p : p[i] = p[j] => i = j}

\* Lines 437-442 for two consecutive variables re0, re of a set.
PairError(re0, re, rv, m) ==
    IF re \notin DOMAIN rv \/ re0 \notin DOMAIN rv THEN PlainErr("KeyError")
    ELSE IF TypeOf[re] # TypeOf[re0] THEN PlainErr("AssertionError")
    ELSE IF ~ValuesEqApprox(m, rv[re0], rv[re]) THEN PlainErr("Exception")
    ELSE NoErr

\* Lines 434-443 for one set iterated in the order p: the exception that
\* leaves the loop, else "Exception" when the set is marked broken.
SetError(p, rv, m) ==
    LET pairs == 1..(Len(p) - 1)
        x(i) == PairError(p[i], p[i + 1], rv, m)
        leaving == {i \in pairs : x(i).kind \in {"KeyError", "AssertionError"}}
    IN  IF leaving # {} THEN x(Min(leaving))
        ELSE IF \E i \in pairs : x(i) # NoErr THEN PlainErr("Exception")
        ELSE NoErr

\* _find_bad_optimizations1(order, reasons, r_vals): the set of the results
\* it can have (an exception or NoErr), over the iteration orders of its
\* sets and of its dictionary.
FindBadOptimizations1(ord, reasons, rv, m) ==
    LET sets == Range(EquivalenceSets(<<>>, reasons, OrderOutputs(ord)))
        results(S) == {SetError(p, rv, m) : p \in IterationOrders(S)}
        leaving == {x \in UNION {results(S) : S \in sets} :
                       x.kind \in {"KeyError", "AssertionError"}}
        marks(S) == results(S) \ leaving
    IN  leaving
        \cup {x \in {NoErr, PlainErr("Exception")} :
                 /\ \A S \in sets : marks(S) # {}
                 /\ IF x = NoErr THEN \A S \in sets : NoErr \in marks(S)
                    ELSE \E S \in sets : x \in marks(S)}

\* _find_bad_optimizations2, check_variable_norec (lines 467-480): one entry
BadOptimizationCheck2(c, rv, m) ==
    IF c.new_r \notin DOMAIN rv \/ c.r \notin DOMAIN rv
    THEN PlainErr("KeyError")
    ELSE IF TypeOf[c.r] # TypeOf[c.new_r] \/ ~ValuesEqApprox(m, rv[c.r], rv[c.new_r])
    THEN BadOptimization(m, c.r, c.new_r, rv[c.r], rv[c.new_r], c.reason)
    ELSE NoErr

RECURSIVE CheckVariableNorec(_, _, _)
CheckVariableNorec(checks, rv, m) ==
    IF checks = <<>> THEN NoErr
    ELSE LET x == BadOptimizationCheck2(Head(checks), rv, m)
         IN  IF x # NoErr THEN x ELSE CheckVariableNorec(Tail(checks), rv, m)

\* Lines 488-490: the variables checked before r
VarsThatCouldMakeLookBad(e, r) ==
    [i \in DOMAIN e.reasons[r] |-> e.reasons[r][i].r]
    \o (IF OwnerOf[r] = 0 THEN <<>> ELSE NodeInputs(e, OwnerOf[r]))

\* check_variable (lines 482-493) on r, and on each of vs in turn; st is
\* [checked, err], err the exception raised so far.
RECURSIVE CheckVariable(_, _, _, _, _), CheckVariables(_, _, _, _, _)
CheckVariable(e, r, st, rv, m) ==
    IF r \in st.checked THEN st
    ELSE LET s1 == CheckVariables(e, VarsThatCouldMakeLookBad(e, r),
                                  [st EXCEPT !.checked = @ \cup {r}], rv, m)
         IN  IF s1.err # NoErr THEN s1
             ELSE [s1 EXCEPT !.err =
                      CheckVariableNorec(ReasonChecks(e.reasons, <<r>>), rv, m)]

CheckVariables(e, vs, st, rv, m) ==
    IF vs = <<>> \/ st.err # NoErr THEN st
    ELSE CheckVariables(e, Tail(vs), CheckVariable(e, Head(vs), st, rv, m), rv, m)

\* _find_bad_optimizations2(order, reasons, r_vals): the exception or NoErr;
\* e gives the inputs of the nodes (r.owner.inputs) and the reasons.
FindBadOptimizations2(e, ord, rv, m) ==
    CheckVariables(e, OrderOutputs(ord), [checked |-> {}, err |-> NoErr], rv, m).err

\* ------------------------------------------------------------------------
\* f(): the evaluation function.
\* ------------------------------------------------------------------------

node == order[ni]

Raise(x) == pc' = "raised" /\ err' = x

Live(sm, rv, dv) ==
    {sm[v].buf : v \in DOMAIN sm} \cup {rv[v].buf : v \in DOMAIN rv}
        \cup {dv[v].val.buf : v \in DOMAIN dv}

\* Lines 801-814: move the values of the owner-less variables into r_vals.
\* storage_map is a dict: the first bad input met is any of the bad ones.
TransferInputs ==
    /\ pc = "start"
    /\ LET bad == {r \in OwnerLess : ~IsValidValue(mem, storage_map[r])}
           moved(S) == [r \in Variables |-> IF r \in S THEN NoneRef ELSE storage_map[r]]
       IN  IF bad = {}
           THEN /\ r_vals' = [r \in OwnerLess |-> storage_map[r]]
                /\ storage_map' = moved(OwnerLess)
                /\ IF \E r \in Variables : moved(OwnerLess)[r] # NoneRef
                   THEN Raise(PlainErr("AssertionError"))
                   ELSE pc' = "bind" /\ err' = err
           ELSE \E r \in bad, S \in SUBSET (OwnerLess \ bad) :
                /\ r_vals' = [q \in S |-> storage_map[q]]
                /\ storage_map' = moved(S)
                /\ Raise(IF storage_map[r] = NoneRef
                         THEN Err("Missing input", 0, -1, r, "", -2, -2, "", {})
                         ELSE InvalidValueError(mem, r, storage_map[r]))
    /\ UNCHANGED <<mvars, tvars, lvars, mode, env, isarr, thunks_py, thunks_c, mem, dr_vals, ni, supplied, post_vals>>

\* the fault of putting r_vals[r] itself, not a copy, in the input cell
RECURSIVE BindFromNoCopy(_, _, _, _, _, _)
BindFromNoCopy(e, n, i, sm, m, rv) ==
    IF i >= Len(NodeInputs(e, n)) THEN [sm |-> sm, m |-> m, err |-> NoErr]
    ELSE
      LET r == NodeInputs(e, n)[i + 1] IN
      IF r \notin DOMAIN rv
      THEN [sm |-> sm, m |-> m, err |-> PlainErr("AssertionError")]
      ELSE
        LET cp == <<rv[r], m>>
            sm1 == [sm EXCEPT ![r] = cp[1]]
        IN  IF ~IsValidValue(cp[2], cp[1])
            THEN [sm |-> sm1, m |-> cp[2], err |-> InvalidValueError(cp[2], r, cp[1])]
            ELSE BindFromNoCopy(e, n, i + 1, sm1, cp[2], rv)

\* Lines 823-828, from input position i on.  Result: [sm, m, err].
RECURSIVE BindFrom(_, _, _, _, _, _)
BindFrom(e, n, i, sm, m, rv) ==
    IF i >= Len(NodeInputs(e, n)) THEN [sm |-> sm, m |-> m, err |-> NoErr]
    ELSE
      LET r == NodeInputs(e, n)[i + 1] IN
      IF r \notin DOMAIN rv
      THEN [sm |-> sm, m |-> m, err |-> PlainErr("AssertionError")]
      ELSE
        LET cp == LessbrokenDeepcopy(m, rv[r], "in1", n, r)
            sm1 == [sm EXCEPT ![r] = cp[1]]
        IN  IF ~IsValidValue(cp[2], cp[1])
            THEN [sm |-> sm1, m |-> cp[2], err |-> InvalidValueError(cp[2], r, cp[1])]
            ELSE BindFrom(e, n, i + 1, sm1, cp[2], rv)

AfterBind(n) == IF thunks_py[n] THEN "py" ELSE IF thunks_c[n] THEN "rebind" ELSE "clear"

BindInputs ==
    /\ pc = "bind"
    /\ LET b == BindFrom(env, node, 0, storage_map, mem, r_vals)
       IN  /\ storage_map' = b.sm
           /\ mem' = Restrict(b.m, Live(b.sm, r_vals, dr_vals))
           /\ IF b.err # NoErr THEN Raise(b.err)
              ELSE pc' = AfterBind(node) /\ err' = err
    /\ UNCHANGED <<mvars, tvars, lvars, mode, env, isarr, thunks_py, thunks_c, r_vals, dr_vals, ni, supplied, post_vals>>

\* Lines 851-853, from input position i on.  Result: [sm, m].
RECURSIVE RebindFrom(_, _, _, _, _, _)
RebindFrom(e, n, i, sm, m, rv) ==
    IF i >= Len(NodeInputs(e, n)) THEN [sm |-> sm, m |-> m]
    ELSE
      LET r == NodeInputs(e, n)[i + 1]
          cp == LessbrokenDeepcopy(m, rv[r], "in2", n, r)
      IN  RebindFrom(e, n, i + 1, [sm EXCEPT ![r] = cp[1]], cp[2], rv)

RebindInputs ==
    /\ pc = "rebind"
    /\ LET b == RebindFrom(env, node, 0, storage_map, mem, r_vals)
       IN  /\ storage_map' = b.sm
           /\ mem' = Restrict(b.m, Live(b.sm, r_vals, dr_vals))
    /\ pc' = "c"
    /\ UNCHANGED <<mvars, tvars, lvars, mode, env, isarr, thunks_py, thunks_c, r_vals, dr_vals, ni, err, supplied, post_vals>>

\* What a thunk may do: write a new content into the buffers of at most
\* max_mut of its inputs, and leave in each output cell a new object, one of its input
\* objects, a view of an input, or a view of an earlier output (at most one
\* output is such an alias).  A second output is a new object of content 0
\* or of invalid content, a view of the first output, or an alias of the
\* first input.
OutChoices(e, n, o) ==
    IF o = 0
    THEN {[k |-> "fresh", arg |-> c] : c \in Contents}
         \cup {[k |-> kk, arg |-> i] : kk \in {"same", "view"}, i \in InputPositions(e, n)}
    ELSE {[k |-> "fresh", arg |-> 0], [k |-> "fresh", arg |-> -1],
          [k |-> "oview", arg |-> 0],
          [k |-> "same", arg |-> 0], [k |-> "view", arg |-> 0]}

OutputChoices(e, n) ==
    {chs \in [1..Len(NodeOutputs(n)) -> UNION {OutChoices(e, n, o) : o \in OutputPositions(n)}] :
        /\ \A i \in DOMAIN chs : chs[i] \in OutChoices(e, n, i - 1)
        /\ Cardinality({i \in DOMAIN chs : chs[i].k # "fresh"}) <= 1}

MutationChoices(e, n, sm, m) ==
    {<<>>} \cup
    UNION {{mut \in [S -> ValidContents] : \A v \in S : mut[v] # m[sm[v].buf]} :
              S \in {T \in SUBSET Range(NodeInputs(e, n)) :
                        T # {} /\ Cardinality(T) <= e.max_mut}}

Mutate(sm, m, mut) ==
    [b \in DOMAIN m |->
        IF \E v \in DOMAIN mut : sm[v].buf = b
        THEN mut[CHOOSE v \in DOMAIN mut : sm[v].buf = b]
        ELSE m[b]]

\* the object a thunk leaves in the cell of its output at position o
RECURSIVE OutRef(_, _, _, _, _, _)
OutRef(e, n, tag, sm, chs, o) ==
    LET ch == chs[o + 1]
        ov == NodeOutputs(n)[o + 1]
    IN  CASE ch.k = "fresh" -> NewObj(tag, n, ov)
          [] ch.k = "same" -> sm[NodeInputs(e, n)[ch.arg + 1]]
          [] ch.k = "view" -> NewView(tag, n, ov, sm[NodeInputs(e, n)[ch.arg + 1]])
          [] OTHER -> NewView(tag, n, ov, OutRef(e, n, tag, sm, chs, ch.arg))

ThunkStorage(e, n, tag, sm, chs) ==
    [v \in Variables |->
        IF \E o \in OutputPositions(n) : NodeOutputs(n)[o + 1] = v
        THEN OutRef(e, n, tag, sm, chs,
                    CHOOSE o \in OutputPositions(n) : NodeOutputs(n)[o + 1] = v)
        ELSE sm[v]]

ThunkMem(e, n, tag, sm, m, mut, chs) ==
    LET m1 == Mutate(sm, m, mut)
        fresh == {i \in DOMAIN chs : chs[i].k = "fresh"}
        bufOf(i) == NewObj(tag, n, NodeOutputs(n)[i]).buf
        newbufs == {bufOf(i) : i \in fresh}
    IN  [b \in (DOMAIN m1) \cup newbufs |->
            IF b \in newbufs
            THEN chs[CHOOSE i \in fresh : bufOf(i) = b].arg
            ELSE m1[b]]

InputsPc(ph) == IF ph = "py" THEN "py_inputs" ELSE "c_inputs"

ViewmapPc(ph) == IF ph = "py" THEN "py_viewmap" ELSE "c_viewmap"

OutputsPc(ph) == IF ph = "py" THEN "py_outputs" ELSE "c_outputs"

\* thunk_py() (line 831) or thunk_c() (line 855): the operator's code runs.
RunThunk(ph) ==
    /\ pc = ph
    /\ \/ \E mut \in MutationChoices(env, node, storage_map, mem),
             chs \in OutputChoices(env, node) :
            /\ storage_map' = ThunkStorage(env, node, ph, storage_map, chs)
            /\ mem' = ThunkMem(env, node, ph, storage_map, mem, mut, chs)
            /\ pc' = InputsPc(ph)
            /\ err' = err
       \/ /\ Raise(PlainErr("OpError"))
          /\ UNCHANGED <<storage_map, mem>>
    /\ UNCHANGED <<mvars, tvars, lvars, mode, env, isarr, thunks_py, thunks_c, r_vals, dr_vals, ni, supplied, post_vals>>

\* History: the graph inputs that _check_inputs finds changed by the thunk of
\* an active node that declares them destroyed (line 274-276), each with the
\* content the thunk left in its cell.
AcceptedDestroyed(e, n, sm, rv, m) ==
    {<<r, ContentOf(m, sm[r])>> : r \in
        {q \in Range(NodeInputs(e, n)) :
            /\ OwnerOf[q] = 0
            /\ q \in DestroyedResList(e, n)
            /\ n \in ActiveOrderSet(e)
            /\ ~ValuesEqApprox(m, rv[q], sm[q])}}

\* _check_inputs(node, storage_map, r_vals, dr_vals, active_order_set,
\* clobber_dr_vals): True after thunk_py (line 833), False after thunk_c (857)
CheckInputsStep(ph) ==
    /\ pc = InputsPc(ph)
    /\ LET res == CheckInputs(env, node, storage_map, dr_vals, r_vals, mem, ph = "py")
       IN  /\ storage_map' = res.sm
           /\ dr_vals' = res.dv
           /\ IF res.err # NoErr
              THEN Raise(res.err) /\ post_vals' = post_vals
              ELSE /\ pc' = ViewmapPc(ph)
                   /\ err' = err
                   /\ post_vals' = post_vals \cup
                          AcceptedDestroyed(env, node, storage_map, r_vals, mem)
    /\ UNCHANGED <<mvars, tvars, lvars, mode, env, isarr, thunks_py, thunks_c, mem, r_vals, ni, supplied>>

\* _check_viewmap(node, storage_map) (lines 836 and 860)
CheckViewmapStep(ph) ==
    /\ pc = ViewmapPc(ph)
    /\ LET x == CheckViewmap(env, node, storage_map, mem, isarr)
       IN  IF x # NoErr THEN Raise(x)
           ELSE pc' = OutputsPc(ph) /\ err' = err
    /\ UNCHANGED <<mvars, tvars, lvars, mode, env, isarr, thunks_py, thunks_c, storage_map, mem, r_vals,
                   dr_vals, ni, supplied, post_vals>>

\* the fault of leaving the reference outputs in their cells
RECURSIVE PyOutputsFromKeepCell(_, _, _, _, _)
PyOutputsFromKeepCell(n, o, sm, rv, m) ==
    IF o >= Len(NodeOutputs(n)) THEN [sm |-> sm, rv |-> rv, err |-> NoErr]
    ELSE
      LET r == NodeOutputs(n)[o + 1] IN
      IF ~IsValidValue(m, sm[r])
      THEN [sm |-> sm, rv |-> rv, err |-> InvalidValueError(m, r, sm[r])]
      ELSE IF r \in DOMAIN rv
      THEN [sm |-> sm, rv |-> rv, err |-> PlainErr("AssertionError")]
      ELSE PyOutputsFromKeepCell(n, o + 1, sm, (r :> sm[r]) @@ rv, m)

\* Lines 840-847, from output position o on.  Result: [sm, rv, err].
RECURSIVE PyOutputsFrom(_, _, _, _, _)
PyOutputsFrom(n, o, sm, rv, m) ==
    IF o >= Len(NodeOutputs(n)) THEN [sm |-> sm, rv |-> rv, err |-> NoErr]
    ELSE
      LET r == NodeOutputs(n)[o + 1] IN
      IF ~IsValidValue(m, sm[r])
      THEN [sm |-> sm, rv |-> rv, err |-> InvalidValueError(m, r, sm[r])]
      ELSE IF r \in DOMAIN rv
      THEN [sm |-> sm, rv |-> rv, err |-> PlainErr("AssertionError")]
      ELSE PyOutputsFrom(n, o + 1, [sm EXCEPT ![r] = NoneRef], (r :> sm[r]) @@ rv, m)

StoreOutputsPy ==
    /\ pc = "py_outputs"
    /\ LET res == PyOutputsFrom(node, 0, storage_map, r_vals, mem)
       IN  /\ storage_map' = res.sm
           /\ r_vals' = res.rv
           /\ IF res.err # NoErr THEN Raise(res.err)
              ELSE /\ pc' = IF thunks_c[node] THEN "rebind" ELSE "clear"
                   /\ err' = err
    /\ UNCHANGED <<mvars, tvars, lvars, mode, env, isarr, thunks_py, thunks_c, mem, dr_vals, ni, supplied, post_vals>>

\* the fault of keeping the compiled thunk's output as the value of r
RECURSIVE COutputsFromKeepC(_, _, _, _, _)
COutputsFromKeepC(n, o, sm, rv, m) ==
    IF o >= Len(NodeOutputs(n)) THEN [sm |-> sm, rv |-> rv, err |-> NoErr]
    ELSE
      LET r == NodeOutputs(n)[o + 1] IN
      IF ~IsValidValue(m, sm[r])
      THEN [sm |-> sm, rv |-> rv, err |-> InvalidValueError(m, r, sm[r])]
      ELSE IF r \in DOMAIN rv /\ ~ValuesEqApprox(m, rv[r], sm[r])
      THEN [sm |-> sm, rv |-> rv, err |-> BadCLinkerOutput(m, r, rv[r], sm[r])]
      ELSE COutputsFromKeepC(n, o + 1, [sm EXCEPT ![r] = NoneRef],
                             (r :> sm[r]) @@ rv, m)

\* the fault of validating every output before comparing the first
RECURSIVE COutputsFromValidateFirst(_, _, _, _, _)
COutputsFromValidateFirst(n, o, sm, rv, m) ==
    LET invalid == {j \in OutputPositions(n) :
                       j >= o /\ ~IsValidValue(m, sm[NodeOutputs(n)[j + 1]])}
    IN  IF o >= Len(NodeOutputs(n)) THEN [sm |-> sm, rv |-> rv, err |-> NoErr]
        ELSE IF invalid # {}
        THEN LET bad == NodeOutputs(n)[Min(invalid) + 1]
             IN  [sm |-> sm, rv |-> rv, err |-> InvalidValueError(m, bad, sm[bad])]
        ELSE
          LET r == NodeOutputs(n)[o + 1] IN
          IF r \in DOMAIN rv
          THEN IF ~ValuesEqApprox(m, rv[r], sm[r])
               THEN [sm |-> sm, rv |-> rv, err |-> BadCLinkerOutput(m, r, rv[r], sm[r])]
               ELSE COutputsFromValidateFirst(n, o + 1, [sm EXCEPT ![r] = NoneRef], rv, m)
          ELSE COutputsFromValidateFirst(n, o + 1, [sm EXCEPT ![r] = NoneRef],
                                         (r :> sm[r]) @@ rv, m)

\* Lines 862-875, from output position o on.  Result: [sm, rv, err].
RECURSIVE COutputsFrom(_, _, _, _, _)
COutputsFrom(n, o, sm, rv, m) ==
    IF o >= Len(NodeOutputs(n)) THEN [sm |-> sm, rv |-> rv, err |-> NoErr]
    ELSE
      LET r == NodeOutputs(n)[o + 1] IN
      IF ~IsValidValue(m, sm[r])
      THEN [sm |-> sm, rv |-> rv, err |-> InvalidValueError(m, r, sm[r])]
      ELSE IF r \in DOMAIN rv
      THEN IF ~ValuesEqApprox(m, rv[r], sm[r])
           THEN [sm |-> sm, rv |-> rv, err |-> BadCLinkerOutput(m, r, rv[r], sm[r])]
           ELSE COutputsFrom(n, o + 1, [sm EXCEPT ![r] = NoneRef], rv, m)
      ELSE COutputsFrom(n, o + 1, [sm EXCEPT ![r] = NoneRef], (r :> sm[r]) @@ rv, m)

CompareOutputsC ==
    /\ pc = "c_outputs"
    /\ LET res == COutputsFrom(node, 0, storage_map, r_vals, mem)
       IN  /\ storage_map' = res.sm
           /\ r_vals' = res.rv
           /\ IF res.err # NoErr THEN Raise(res.err)
              ELSE pc' = "clear" /\ err' = err
    /\ UNCHANGED <<mvars, tvars, lvars, mode, env, isarr, thunks_py, thunks_c, mem, dr_vals, ni, supplied, post_vals>>

\* Lines 879-880: the node is done, its input cells are emptied.
ClearInputs ==
    /\ pc = "clear"
    /\ LET sm1 == [v \in Variables |->
                     IF v \in Range(NodeInputs(env, node)) THEN NoneRef ELSE storage_map[v]]
       IN  /\ storage_map' = sm1
           /\ mem' = Restrict(mem, Live(sm1, r_vals, dr_vals))
    /\ IF ni < Len(order)
       THEN ni' = ni + 1 /\ pc' = "bind"
       ELSE ni' = ni /\ pc' = "find_bad_optimizations"
    /\ UNCHANGED <<mvars, tvars, lvars, mode, env, isarr, thunks_py, thunks_c, r_vals, dr_vals, err, supplied, post_vals>>

\* Line 885
FindBadOptimizations ==
    /\ pc = "find_bad_optimizations"
    /\ LET x == FindBadOptimizations0(order, env.reasons, r_vals, mem)
       IN  IF x # NoErr THEN Raise(x)
           ELSE pc' = "transfer" /\ err' = err
    /\ UNCHANGED <<mvars, tvars, lvars, mode, env, isarr, thunks_py, thunks_c, storage_map, mem, r_vals,
                   dr_vals, ni, supplied, post_vals>>

\* Lines 893-929: the results go back to the storage cells.
\* Result: [sm, m, err].
TransferredStorage(e, sm, rv) ==
    [v \in Variables |->
        IF v \in DOMAIN rv /\ (v \in Range(e.outputs) \/ OwnerOf[v] = 0)
        THEN rv[v] ELSE sm[v]]

\* the fault of never writing a destroyed value back
NoneDestroyed(dv) == {}

\* the graph inputs whose destroyed value is written back (lines 909-922)
Destroyed(dv) == {r \in DOMAIN dv : OwnerOf[r] = 0}

\* the in-place branch (lines 914-920): same dtype and shape, a numpy array
InPlace(arr, r) == arr

DestroyedStorage(sm, dv, arr) ==
    [v \in Variables |->
        IF v \in Destroyed(dv) /\ ~InPlace(arr, v) THEN dv[v].val ELSE sm[v]]

DestroyedMem(sm, m, dv, arr) ==
    [b \in DOMAIN m |->
        IF \E r \in Destroyed(dv) : InPlace(arr, r) /\ sm[r].buf = b
        THEN m[dv[CHOOSE r \in Destroyed(dv) : InPlace(arr, r) /\ sm[r].buf = b].val.buf]
        ELSE m[b]]

TransferResults ==
    /\ pc = "transfer"
    /\ IF \E v \in Variables : storage_map[v] # NoneRef
       THEN Raise(PlainErr("AssertionError")) /\ UNCHANGED <<storage_map, mem>>
       ELSE IF \E k \in DOMAIN env.outputs : env.outputs[k] \notin DOMAIN r_vals
       THEN Raise(PlainErr("KeyError")) /\ UNCHANGED <<storage_map, mem>>
       ELSE
         LET sm1 == TransferredStorage(env, storage_map, r_vals) IN
         IF \/ \E r \in DOMAIN dr_vals : dr_vals[r].val = NoneRef
            \/ \E r \in Destroyed(dr_vals) : r \notin Range(EnvInputs)
         THEN /\ Raise(PlainErr("AssertionError"))
              /\ storage_map' = sm1
              /\ mem' = mem
         ELSE
           LET sm2 == DestroyedStorage(sm1, dr_vals, isarr)
               m2 == DestroyedMem(sm1, mem, dr_vals, isarr)
           IN  /\ storage_map' = sm2
               /\ mem' = m2
               /\ IF \E r \in OwnerLess : sm2[r] = NoneRef
                  THEN Raise(PlainErr("AssertionError"))
                  ELSE pc' = "done" /\ err' = err
    /\ UNCHANGED <<mvars, tvars, lvars, mode, env, isarr, thunks_py, thunks_c, r_vals, dr_vals, ni, supplied, post_vals>>

\* ------------------------------------------------------------------------
\* DebugMode.__init__ and the graphs f() is run on.
\* ------------------------------------------------------------------------

\* the default of stability_patience
DefaultPatience == 10

\* the constructors are not running
\* _VariableEquivalenceTracker.__init__ (lines 585-586): not attached
TrackerIdle ==
    /\ equiv = <<>>
    /\ classes = <<>>
    /\ active_nodes = {}
    /\ inactive_nodes = {}
    /\ all_variables_ever = <<>>
    /\ tracker_reasons = <<>>
    /\ replaced_by = <<>>
    /\ event_list = <<>>
    /\ tpc = "detached"

\* no _Linker has been made
LinkerIdle ==
    /\ linkers = <<>>
    /\ accepted = [self |-> 0, env |-> "None", no_recycling |-> "unset", ret |-> 0,
                   error |-> ""]

MakerIdle ==
    /\ args = [stability_patience |-> DefaultPatience, check_c_code |-> TRUE,
               check_py_code |-> TRUE]
    /\ accept_inplace = FALSE
    /\ source = <<>>
    /\ mpc = "made"
    /\ run = 0
    /\ l0 = <<>>
    /\ li = <<>>
    /\ runs = 0
    /\ kept = -1
    /\ merr = ""

\* the fault of requiring both checks
DebugModeInitBoth(stability_patience, check_c_code, check_py_code) ==
    IF ~(check_c_code /\ check_py_code)
    THEN [error |-> "ValueError", stability_patience |-> 0,
          check_c_code |-> FALSE, check_py_code |-> FALSE]
    ELSE [error |-> "", stability_patience |-> stability_patience,
          check_c_code |-> check_c_code, check_py_code |-> check_py_code]

\* DebugMode.__init__: the ValueError, or the mode with its members set
DebugModeInit(stability_patience, check_c_code, check_py_code) ==
    IF ~(check_c_code \/ check_py_code)
    THEN [error |-> "ValueError", stability_patience |-> 0,
          check_c_code |-> FALSE, check_py_code |-> FALSE]
    ELSE [error |-> "", stability_patience |-> stability_patience,
          check_c_code |-> check_c_code, check_py_code |-> check_py_code]

\* Lines 723-773 of make_all: a compiled thunk exists when check_c_code is
\* set and the op has C code (otherwise None); a perform thunk exists when
\* check_py_code is set.
MakeThunksC(md, c_impl) == [n \in Nodes |-> md.check_c_code /\ n \in c_impl]

MakeThunksPy(md) == [n \in Nodes |-> md.check_py_code]

NoReasons == [v \in Variables |-> <<>>]

Rewrite(new_r, reason, r) ==
    [NoReasons EXCEPT ![new_r] = <<[reason |-> reason, r |-> r]>>]

\* The graphs after optimization: the inputs of node 2, the designated
\* outputs, and the reason chains the tracker recorded.
\* b = node2(a, x) with a = node1(x, y); nothing was rewritten
GraphChain ==
    [n2in |-> <<"a", "x">>, outputs |-> <<"b">>, reasons |-> NoReasons, max_mut |-> 1]

\* the same, with both outputs of node 2 designated
GraphTwoOutputs ==
    [n2in |-> <<"a", "x">>, outputs |-> <<"b", "b2">>, reasons |-> NoReasons,
     max_mut |-> 1]

\* the output a was replaced by b = node2(x, x); node 1 is pruned
GraphReplacedByNode ==
    [n2in |-> <<"x", "x">>, outputs |-> <<"b">>, reasons |-> Rewrite("b", "opt", "a"),
     max_mut |-> 1]

\* the output a was replaced by the graph input x; node 1 is pruned
GraphReplacedByInput ==
    [n2in |-> <<"x", "y">>, outputs |-> <<"x", "b">>, reasons |-> Rewrite("x", "opt", "a"),
     max_mut |-> 1]

\* b = node2(x, a), with thunks that may change both of their inputs
GraphSwapped ==
    [n2in |-> <<"x", "a">>, outputs |-> <<"b">>, reasons |-> NoReasons, max_mut |-> 2]

Graphs == {GraphChain, GraphTwoOutputs, GraphReplacedByNode, GraphReplacedByInput}

NoMap == <<>>

\* destroy_map and view_map of the ops of node 1 and node 2
Decl(d1, d2, v1, v2) == [destroy_map |-> <<d1, d2>>, view_map |-> <<v1, v2>>]

NoDecl == Decl(NoMap, NoMap, NoMap, NoMap)

WithDecl(g, d) ==
    [n2in |-> g.n2in, outputs |-> g.outputs, reasons |-> g.reasons,
     max_mut |-> g.max_mut, destroy_map |-> d.destroy_map, view_map |-> d.view_map]

\* graphs whose ops declare nothing
PlainEnvs == {WithDecl(g, NoDecl) : g \in Graphs}

\* graphs whose ops declare destroyed or viewed inputs
DeclaredEnvs ==
    {WithDecl(GraphChain, d) :
        d \in {Decl((0 :> <<0>>), NoMap, NoMap, NoMap),
               Decl(NoMap, (1 :> <<1>>), NoMap, NoMap)}}

\* more of them, run with one backend at a time
SingleBackendEnvs ==
    {WithDecl(GraphChain, d) :
        d \in {Decl(NoMap, NoMap, (0 :> <<0>>), NoMap),
               Decl(NoMap, (0 :> <<1>>), NoMap, NoMap)}}
    \cup {WithDecl(GraphReplacedByNode, d) :
        d \in {Decl((0 :> <<0>>), NoMap, NoMap, NoMap),
               Decl(NoMap, (0 :> <<1>>), NoMap, NoMap)}}
    \cup {WithDecl(GraphReplacedByInput, Decl(NoMap, (0 :> <<0>>), NoMap, NoMap)),
          WithDecl(GraphTwoOutputs, Decl(NoMap, NoMap, NoMap, (0 :> <<1>>)))}

\* both nodes declare that they destroy x
SwappedEnv == WithDecl(GraphSwapped, Decl((0 :> <<0>>), (0 :> <<0>>), NoMap, NoMap))

\* the same, with thunks that change one input at most
DestroyedTwiceEnv == [SwappedEnv EXCEPT !.max_mut = 1]

\* node 1, pruned but still evaluated, and the active node 2 both declare
\* that they destroy x
PrunedDestroyerEnv ==
    WithDecl(GraphReplacedByInput, Decl((0 :> <<0>>), (0 :> <<0>>), NoMap, NoMap))

\* b, a and b2 are the designated outputs 0, 1 and 2; no node consumes b or b2
DesignatedOutputsEnv ==
    WithDecl([GraphTwoOutputs EXCEPT !.outputs = <<"b", "a", "b2">>], NoDecl)

\* b2 (of type U) was recorded as the replacement of a (of type T)
MistypedRewriteEnv ==
    WithDecl([GraphTwoOutputs EXCEPT !.reasons = Rewrite("b2", "opt", "a")], NoDecl)

\* b was recorded as the replacement of a and of x
ReplacedTwoEnv ==
    WithDecl([GraphReplacedByNode EXCEPT
                 !.reasons = [NoReasons EXCEPT
                                 !["b"] = <<[reason |-> "opt", r |-> "a"],
                                            [reason |-> "opt2", r |-> "x"]>>]],
             NoDecl)

\* the declared graphs also run on values that are not numpy arrays
GenericEnvs ==
    {WithDecl(GraphChain, Decl((0 :> <<0>>), NoMap, NoMap, NoMap)),
     WithDecl(GraphReplacedByInput, Decl(NoMap, (0 :> <<0>>), NoMap, NoMap))}

\* what the caller puts in the cell of the graph input x (-2: nothing)
SuppliedContents == {-2, -1, 0}

\* the ops with C code (the others raise MethodNotDefined at line 761)
CImpls == {{1}, {1, 2}}

\* the three combinations of check_c_code and check_py_code a DebugMode accepts
Flags ==
    {fl \in [c : BOOLEAN, py : BOOLEAN] :
        DebugModeInit(DefaultPatience, fl.c, fl.py).error = ""}

BothFlags == [c |-> TRUE, py |-> TRUE]

\* [env, isarr, c_impl, x, flags]: the graph, the kind of values, the ops
\* with C code, the content supplied for x, the flags of the mode
Scenarios ==
    {[env |-> e, isarr |-> TRUE, c_impl |-> c, x |-> x, flags |-> fl] :
        e \in PlainEnvs, c \in CImpls, x \in SuppliedContents, fl \in Flags}
    \cup {[env |-> e, isarr |-> FALSE, c_impl |-> {1, 2}, x |-> 0, flags |-> fl] :
             e \in PlainEnvs, fl \in Flags}
    \cup {[env |-> e, isarr |-> TRUE, c_impl |-> {1, 2}, x |-> 0, flags |-> fl] :
             e \in DeclaredEnvs, fl \in Flags}
    \cup {[env |-> e, isarr |-> TRUE, c_impl |-> {1, 2}, x |-> 0, flags |-> fl] :
             e \in SingleBackendEnvs, fl \in Flags \ {BothFlags}}
    \cup {[env |-> e, isarr |-> FALSE, c_impl |-> {1, 2}, x |-> 0, flags |-> fl] :
             e \in GenericEnvs, fl \in Flags \ {BothFlags}}
    \cup {[env |-> SwappedEnv, isarr |-> TRUE, c_impl |-> {1, 2}, x |-> 0,
           flags |-> [c |-> FALSE, py |-> TRUE]]}
    \cup {[env |-> DesignatedOutputsEnv, isarr |-> TRUE, c_impl |-> {1, 2}, x |-> 0,
           flags |-> [c |-> FALSE, py |-> TRUE]]}
    \cup {[env |-> MistypedRewriteEnv, isarr |-> TRUE, c_impl |-> {1, 2}, x |-> 0,
           flags |-> [c |-> FALSE, py |-> TRUE]]}
    \cup {[env |-> ReplacedTwoEnv, isarr |-> TRUE, c_impl |-> {1, 2}, x |-> 0,
           flags |-> [c |-> FALSE, py |-> TRUE]]}
    \cup {[env |-> DestroyedTwiceEnv, isarr |-> TRUE, c_impl |-> {1, 2}, x |-> 0,
           flags |-> fl] : fl \in Flags}
    \cup {[env |-> PrunedDestroyerEnv, isarr |-> TRUE, c_impl |-> {1, 2}, x |-> 0,
           flags |-> fl] : fl \in Flags \ {BothFlags}}

\* the cells and memory when f() is called: x as supplied, the constant y
InitialStorage(x) ==
    [v \in Variables |->
        CASE v = "x" /\ x # -2 -> NewObj("arg", 0, "x")
          [] v = "y" -> NewObj("arg", 0, "y")
          [] OTHER -> NoneRef]

InitialMem(x) ==
    IF x # -2
    THEN (NewObj("arg", 0, "x").buf :> x) @@ (NewObj("arg", 0, "y").buf :> 0)
    ELSE (NewObj("arg", 0, "y").buf :> 0)

InitF ==
    /\ \E sc \in Scenarios :
         /\ mode = DebugModeInit(DefaultPatience, sc.flags.c, sc.flags.py)
         /\ env = sc.env
         /\ isarr = sc.isarr
         /\ thunks_c = MakeThunksC(mode, sc.c_impl)
         /\ thunks_py = MakeThunksPy(mode)
         /\ supplied = [v \in {"x"} |-> sc.x]
         /\ storage_map = InitialStorage(sc.x)
         /\ mem = InitialMem(sc.x)
    /\ r_vals = <<>>
    /\ dr_vals = <<>>
    /\ pc = "start"
    /\ ni = 1
    /\ err = NoErr
    /\ post_vals = {}
    /\ MakerIdle
    /\ TrackerIdle
    /\ LinkerIdle

NextF ==
    \/ TransferInputs
    \/ BindInputs
    \/ RunThunk("py")
    \/ CheckInputsStep("py")
    \/ CheckViewmapStep("py")
    \/ StoreOutputsPy
    \/ RebindInputs
    \/ RunThunk("c")
    \/ CheckInputsStep("c")
    \/ CheckViewmapStep("c")
    \/ CompareOutputsC
    \/ ClearInputs
    \/ FindBadOptimizations
    \/ TransferResults

SpecF == InitF /\ [][NextF]_vars

\* ------------------------------------------------------------------------
\* DebugMode.__init__, _optcheck_env and the stability loop of
\* _Maker.__init__
\* ------------------------------------------------------------------------

MaxPatience == 3

MaxEvents == 2

\* the pseudo-node 'output' of a change event on a designated output
OutputNode == <<-1, 0>>

\* _EnvEvent.__init__ (idx -2 and reason "" stand for None)
EnvEvent(kind, n, idx, reason) ==
    [kind |-> kind, node |-> n,
     op |-> IF n = OutputNode THEN "output" ELSE "op1",
     idx |-> idx, reason |-> reason]

\* the fault of comparing the nodes too
EnvEventIdentical(e1, e2) == e1 = e2

\* the fault of leaving op out of the comparison
EnvEventEqAnyOp(e1, e2) ==
    /\ e1.kind = e2.kind
    /\ e1.idx = e2.idx
    /\ e1.reason = e2.reason

\* _EnvEvent.__eq__: the nodes are not compared
EnvEventEq(e1, e2) ==
    /\ e1.kind = e2.kind
    /\ e1.op = e2.op
    /\ e1.idx = e2.idx
    /\ e1.reason = e2.reason

\* _EnvEvent.__ne__
EnvEventNe(e1, e2) == ~EnvEventEq(e1, e2)

\* li != l0 on two Python lists, by the elements' __eq__
ListNe(p, q) ==
    \/ Len(p) # Len(q)
    \/ \E j \in 1..Len(p) : ~EnvEventEq(p[j], q[j])

\* the events the tracker of clone c can record: on_import, on_prune and
\* on_change_input on a node of the clone or on 'output'
Events(c) ==
    {EnvEvent("import", <<c, 1>>, -2, ""),
     EnvEvent("change", <<c, 1>>, 0, "opt"),
     EnvEvent("change", <<c, 1>>, 0, "merge"),
     EnvEvent("change", OutputNode, 0, "opt"),
     EnvEvent("prune", <<c, 1>>, -2, "")}

\* the event lists of at most MaxEvents events
EventLists(c) == UNION {[1..k -> Events(c)] : k \in 0..MaxEvents}

\* the destroy_map attribute of the ops of the two nodes of the source graph
DestroyMapKinds == {"absent", "empty", "nonempty"}

\* the fault of testing hasattr(node.op, 'destroy_map')
HasDestroyMapAttr(k) == k # "absent"

\* getattr(node.op, 'destroy_map', None) is true
HasDestroyMap(k) == k = "nonempty"

\* the mode before DebugMode.__init__ has run
NoMode ==
    [error |-> "unbuilt", stability_patience |-> 0,
     check_c_code |-> FALSE, check_py_code |-> FALSE]

\* f() is not running
FIdle ==
    /\ env = WithDecl(GraphChain, NoDecl)
    /\ isarr = TRUE
    /\ thunks_py = [n \in Nodes |-> FALSE]
    /\ thunks_c = [n \in Nodes |-> FALSE]
    /\ storage_map = InitialStorage(-2)
    /\ mem = InitialMem(-2)
    /\ r_vals = <<>>
    /\ dr_vals = <<>>
    /\ pc = "unlinked"
    /\ ni = 1
    /\ err = NoErr
    /\ supplied = [v \in {"x"} |-> -2]
    /\ post_vals = {}

\* the arguments of the two constructors
MakerScenarios ==
    {[patience |-> n, c |-> c, py |-> p, accept_inplace |-> FALSE,
      source |-> <<"absent", "empty">>] :
        n \in 0..MaxPatience, c \in BOOLEAN, p \in BOOLEAN}
    \cup {[patience |-> n, c |-> TRUE, py |-> TRUE, accept_inplace |-> a,
           source |-> <<k1, k2>>] :
        n \in 1..MaxPatience, a \in BOOLEAN, k1 \in DestroyMapKinds,
        k2 \in DestroyMapKinds}

InitM ==
    /\ \E sc \in MakerScenarios :
         /\ args = [stability_patience |-> sc.patience, check_c_code |-> sc.c,
                    check_py_code |-> sc.py]
         /\ accept_inplace = sc.accept_inplace
         /\ source = sc.source
    /\ mode = NoMode
    /\ mpc = "new"
    /\ run = 0
    /\ l0 = <<>>
    /\ li = <<>>
    /\ runs = 0
    /\ kept = -1
    /\ merr = ""
    /\ FIdle
    /\ TrackerIdle
    /\ LinkerIdle

funchanged ==
    <<env, isarr, thunks_py, thunks_c, storage_map, mem, r_vals, dr_vals, pc,
      ni, err, supplied, post_vals>>

\* DebugMode(stability_patience, check_c_code, check_py_code)
DebugModeNew ==
    /\ mpc = "new"
    /\ mode' = DebugModeInit(args.stability_patience, args.check_c_code,
                             args.check_py_code)
    /\ IF mode'.error # ""
       THEN mpc' = "raised" /\ merr' = mode'.error
       ELSE mpc' = "loop" /\ merr' = merr
    /\ UNCHANGED <<args, accept_inplace, source, run, l0, li, runs, kept>>
    /\ UNCHANGED <<funchanged, tvars, lvars>>

\* _optcheck_env: the error raised for the graph src, "" when none is
OptcheckEnv(src, accept) ==
    IF ~accept /\ (\E k \in 1..Len(src) : HasDestroyMap(src[k]))
    THEN "TypeError"
    ELSE ""

\* lines 981-983: the next run clones the graph, attaches a new tracker
\* (on_attach empties its event list) and rejects in-place ops
MakeEnv ==
    /\ mpc = "loop"
    /\ run < mode.stability_patience
    /\ li' = <<>>
    /\ IF OptcheckEnv(source, accept_inplace) # ""
       THEN mpc' = "raised" /\ merr' = OptcheckEnv(source, accept_inplace)
       ELSE mpc' = "optimize" /\ merr' = merr
    /\ UNCHANGED <<args, accept_inplace, source, run, l0, runs, kept, mode>>
    /\ UNCHANGED <<funchanged, tvars, lvars>>

\* line 985: the optimizer runs on the clone; the tracker has recorded the
\* events from its attachment until the optimizer returns
Optimize ==
    /\ mpc = "optimize"
    /\ \E evs \in EventLists(run) : li' = evs
    /\ runs' = runs + 1
    /\ mpc' = "compare"
    /\ UNCHANGED <<args, accept_inplace, source, run, l0, kept, merr, mode>>
    /\ UNCHANGED <<funchanged, tvars, lvars>>

\* lines 986-1006
Compare ==
    /\ mpc = "compare"
    /\ IF run # 0
       THEN IF ListNe(li, l0)
            THEN mpc' = "raised" /\ merr' = "StochasticOrder" /\ run' = run
            ELSE mpc' = "loop" /\ merr' = merr /\ run' = run + 1
       ELSE mpc' = "loop" /\ merr' = merr /\ run' = run + 1
    /\ l0' = IF run = 0 THEN li ELSE l0
    /\ UNCHANGED <<args, accept_inplace, source, li, runs, kept, mode>>
    /\ UNCHANGED <<funchanged, tvars, lvars>>

\* the fault of keeping env0, the graph of the first run
KeptRunFirst(n) == 0

\* line 1010: self.env = env, the graph bound by the last of the n
\* iterations of the loop
KeptRun(n) == n - 1

\* lines 1009-1010: del env0 fails when the loop body never ran; self.env
\* is the env of the last run
Finish ==
    /\ mpc = "loop"
    /\ run >= mode.stability_patience
    /\ IF run = 0
       THEN mpc' = "raised" /\ merr' = "NameError" /\ kept' = kept
       ELSE mpc' = "made" /\ merr' = merr /\ kept' = KeptRun(run)
    /\ UNCHANGED <<args, accept_inplace, source, run, l0, li, runs, mode>>
    /\ UNCHANGED <<funchanged, tvars, lvars>>

NextM ==
    \/ DebugModeNew
    \/ MakeEnv
    \/ Optimize
    \/ Compare
    \/ Finish

SpecM == InitM /\ [][NextM]_vars

\* ------------------------------------------------------------------------
\* _VariableEquivalenceTracker: the callbacks the Env calls while the
\* optimizer rewrites the graph.
\* ------------------------------------------------------------------------

MaxTrackerEvents == 4

\* the variables of the rewire events
TrackedVariables == {"x", "a", "b", "b2"}

\* the Apply node of the graph the tracker is attached to
TrackedNode(n) == <<0, n>>

\* node.inputs of the nodes the Env imports
TrackedInputs(n) == NodeInputs(GraphChain, n)

\* dict.setdefault(k, []) on a dict of lists
SetDefault(d, k) == IF k \in DOMAIN d THEN d ELSE (k :> <<>>) @@ d

\* the state of the tracker as a record
TrackerState ==
    [equiv |-> equiv, classes |-> classes, active_nodes |-> active_nodes,
     inactive_nodes |-> inactive_nodes, all_variables_ever |-> all_variables_ever,
     reasons |-> tracker_reasons, replaced_by |-> replaced_by,
     event_list |-> event_list, tpc |-> tpc]

\* the set objects no key of equiv references are gone
Referenced(eq, cl) == Restrict(cl, {eq[v] : v \in DOMAIN eq})

\* the callback leaves the tracker in state t
Becomes(t) ==
    /\ equiv' = t.equiv
    /\ classes' = Referenced(t.equiv, t.classes)
    /\ active_nodes' = t.active_nodes
    /\ inactive_nodes' = t.inactive_nodes
    /\ all_variables_ever' = t.all_variables_ever
    /\ tracker_reasons' = t.reasons
    /\ replaced_by' = t.replaced_by
    /\ event_list' = t.event_list
    /\ tpc' = t.tpc
    /\ UNCHANGED <<mvars, fvars, lvars>>

\* on_attach (lines 588-597)
OnAttach ==
    /\ tpc = "detached"
    /\ Becomes([TrackerState EXCEPT !.tpc = "attached"])

\* the fault of dropping the outputs of a pruned node from equiv
PruneResultForgets(t, n) ==
    LET t1 == [t EXCEPT !.event_list = Append(@, EnvEvent("prune", TrackedNode(n), -2, ""))]
        kept_keys == DOMAIN t.equiv \ Range(NodeOutputs(n))
    IN  IF n \notin t.active_nodes \/ n \in t.inactive_nodes
        THEN [t1 EXCEPT !.tpc = "AssertionError"]
        ELSE [t1 EXCEPT !.active_nodes = @ \ {n}, !.inactive_nodes = @ \cup {n},
                        !.equiv = [v \in kept_keys |-> t.equiv[v]]]

\* the fault of leaving a pruned node in active_nodes
PruneResultStaysActive(t, n) ==
    LET t1 == [t EXCEPT !.event_list = Append(@, EnvEvent("prune", TrackedNode(n), -2, ""))]
    IN  IF n \notin t.active_nodes \/ n \in t.inactive_nodes
        THEN [t1 EXCEPT !.tpc = "AssertionError"]
        ELSE [t1 EXCEPT !.inactive_nodes = @ \cup {n}]

\* on_prune (lines 603-609)
PruneResult(t, n) ==
    LET t1 == [t EXCEPT !.event_list = Append(@, EnvEvent("prune", TrackedNode(n), -2, ""))]
    IN  IF n \notin t.active_nodes \/ n \in t.inactive_nodes
        THEN [t1 EXCEPT !.tpc = "AssertionError"]
        ELSE [t1 EXCEPT !.active_nodes = @ \ {n}, !.inactive_nodes = @ \cup {n}]

\* lines 623-628, from output position o on
RECURSIVE ImportOutputsFrom(_, _, _)
ImportOutputsFrom(t, n, o) ==
    IF o >= Len(NodeOutputs(n)) THEN t
    ELSE
      LET r == NodeOutputs(n)[o + 1] IN
      IF r \in DOMAIN t.equiv
      THEN [t EXCEPT !.tpc = "AssertionError"]
      ELSE ImportOutputsFrom(
               [t EXCEPT !.equiv = (r :> r) @@ @,
                         !.classes = (r :> {r}) @@ @,
                         !.all_variables_ever = Append(@, r),
                         !.reasons = SetDefault(@, r),
                         !.replaced_by = SetDefault(@, r)],
               n, o + 1)

\* lines 629-631, from input position i on
RECURSIVE ImportInputsFrom(_, _, _)
ImportInputsFrom(t, n, i) ==
    IF i >= Len(TrackedInputs(n)) THEN t
    ELSE
      LET r == TrackedInputs(n)[i + 1] IN
      ImportInputsFrom([t EXCEPT !.reasons = SetDefault(@, r),
                                 !.replaced_by = SetDefault(@, r)], n, i + 1)

\* the fault of importing a pruned node like a node never seen
ImportResultAsNew(t, n) ==
    LET t1 == [t EXCEPT !.event_list = Append(@, EnvEvent("import", TrackedNode(n), -2, ""))]
    IN  IF n \in t.active_nodes
        THEN [t1 EXCEPT !.tpc = "AssertionError"]
        ELSE
          LET t3 == ImportOutputsFrom([t1 EXCEPT !.active_nodes = @ \cup {n}], n, 0)
          IN  IF t3.tpc # "attached" THEN t3 ELSE ImportInputsFrom(t3, n, 0)

\* the fault of leaving a re-imported node in inactive_nodes
ImportResultStaysInactive(t, n) ==
    LET t1 == [t EXCEPT !.event_list = Append(@, EnvEvent("import", TrackedNode(n), -2, ""))]
    IN  IF n \in t.active_nodes
        THEN [t1 EXCEPT !.tpc = "AssertionError"]
        ELSE
          LET t2 == [t1 EXCEPT !.active_nodes = @ \cup {n}] IN
          IF n \in t.inactive_nodes
          THEN IF \E r \in Range(NodeOutputs(n)) : r \notin DOMAIN t.equiv
               THEN [t2 EXCEPT !.tpc = "AssertionError"]
               ELSE t2
          ELSE LET t3 == ImportOutputsFrom(t2, n, 0)
               IN  IF t3.tpc # "attached" THEN t3 ELSE ImportInputsFrom(t3, n, 0)

\* on_import (lines 611-631)
ImportResult(t, n) ==
    LET t1 == [t EXCEPT !.event_list = Append(@, EnvEvent("import", TrackedNode(n), -2, ""))]
    IN  IF n \in t.active_nodes
        THEN [t1 EXCEPT !.tpc = "AssertionError"]
        ELSE
          LET t2 == [t1 EXCEPT !.active_nodes = @ \cup {n}] IN
          IF n \in t.inactive_nodes
          THEN LET t3 == [t2 EXCEPT !.inactive_nodes = @ \ {n}]
               IN  IF \E r \in Range(NodeOutputs(n)) : r \notin DOMAIN t.equiv
                   THEN [t3 EXCEPT !.tpc = "AssertionError"]
                   ELSE t3
          ELSE LET t3 == ImportOutputsFrom(t2, n, 0)
               IN  IF t3.tpc # "attached" THEN t3 ELSE ImportInputsFrom(t3, n, 0)

\* the fault of appending the reason on every rewire
AppendReasonAlways(chain, reason, r) == TRUE

\* lines 640-643: no entry of the chain has this reason and this variable
AppendReason(chain, reason, r) ==
    ~\E k \in DOMAIN chain : chain[k][1] = reason /\ chain[k][2] = r

\* the fault of not logging a variable first seen by a rewire
SeeVariableUnlogged(t, r) ==
    IF r \in DOMAIN t.equiv THEN t
    ELSE [t EXCEPT !.equiv = (r :> r) @@ @, !.classes = (r :> {r}) @@ @]

\* lines 654-658 and 660-664: a variable without a class gets a singleton
\* class and is appended to all_variables_ever
SeeVariable(t, r) ==
    IF r \in DOMAIN t.equiv THEN t
    ELSE [t EXCEPT !.equiv = (r :> r) @@ @,
                   !.classes = (r :> {r}) @@ @,
                   !.all_variables_ever = Append(@, r)]

\* the fault of re-pointing new_r alone
RepointNewROnly(eq, members, new_r, r_set) ==
    [v \in DOMAIN eq \cup {new_r} |-> IF v = new_r THEN r_set ELSE eq[v]]

\* lines 673-674: every member of new_r_set references r_set
Repoint(eq, members, new_r, r_set) ==
    [v \in DOMAIN eq \cup members |-> IF v \in members THEN r_set ELSE eq[v]]

\* lines 654-678: the classes of r and new_r are merged into r_set
MergeResult(t, r, new_r) ==
    LET t1 == SeeVariable(SeeVariable(t, r), new_r)
        r_set == t1.equiv[r]
        new_r_set == t1.equiv[new_r]
    IN  IF new_r \notin t1.classes[new_r_set] \/ r \notin t1.classes[r_set]
        THEN [t1 EXCEPT !.tpc = "AssertionError"]
        ELSE
          LET cl == [t1.classes EXCEPT ![r_set] = @ \cup t1.classes[new_r_set]]
              eq == Repoint(t1.equiv, cl[new_r_set], new_r, r_set)
              t2 == [t1 EXCEPT !.classes = cl, !.equiv = eq]
          IN  IF eq[r] # r_set \/ eq[new_r] # r_set
              THEN [t2 EXCEPT !.tpc = "AssertionError"]
              ELSE t2

\* on_change_input (lines 633-678); n is a node or 'output'
ChangeInputResult(t, n, i, r, new_r, reason) ==
    LET t1 == [t EXCEPT !.event_list = Append(@, EnvEvent("change", n, i, reason)),
                        !.reasons = SetDefault(@, new_r),
                        !.replaced_by = SetDefault(@, new_r)]
        append_reason == AppendReason(t1.reasons[new_r], reason, r)
    IN  IF ~append_reason THEN MergeResult(t1, r, new_r)
        ELSE
          LET t2 == [t1 EXCEPT !.reasons[new_r] = Append(@, <<reason, r>>)] IN
          IF r \notin DOMAIN t2.replaced_by
          THEN [t2 EXCEPT !.tpc = "KeyError"]
          ELSE MergeResult([t2 EXCEPT !.replaced_by[r] = Append(@, <<reason, new_r>>)],
                           r, new_r)

\* the tracker takes another callback
Listening == tpc = "attached" /\ Len(event_list) < MaxTrackerEvents

OnImport ==
    /\ Listening
    /\ \E n \in Nodes : Becomes(ImportResult(TrackerState, n))

OnPrune ==
    /\ Listening
    /\ \E n \in Nodes : Becomes(PruneResult(TrackerState, n))

\* the clients whose input is replaced: (node, index, reason of the rewrite)
RewireClients ==
    {[node |-> TrackedNode(1), i |-> 0, reason |-> "opt"],
     [node |-> TrackedNode(2), i |-> 1, reason |-> "merge"],
     [node |-> OutputNode, i |-> 0, reason |-> "opt"]}

OnChangeInput ==
    /\ Listening
    /\ \E c \in RewireClients, r \in TrackedVariables :
          \E new_r \in TrackedVariables \ {r} :
             Becomes(ChangeInputResult(TrackerState, c.node, c.i, r, new_r, c.reason))

InitT ==
    /\ TrackerIdle
    /\ MakerIdle
    /\ FIdle
    /\ mode = NoMode
    /\ LinkerIdle

NextT ==
    \/ OnAttach
    \/ OnImport
    \/ OnPrune
    \/ OnChangeInput

SpecT == InitT /\ [][NextT]_vars

\* ------------------------------------------------------------------------
\* _Linker: construction and accept.
\* ------------------------------------------------------------------------

MaxLinkers == 2

\* the graphs, the makers and the no_recycling lists of the calls
LinkerEnvs == {"env1", "env2"}

Makers == {"maker1", "maker2"}

NoRecyclingLists == {<<>>, <<"b">>}

\* _Linker.__init__(self, maker), called with the positional arguments a:
\* env is None and no_recycling is not set.  Result: [error, linker].
LinkerInit(a) ==
    IF Len(a) # 1 THEN [error |-> "TypeError", linker |-> <<>>]
    ELSE [error |-> "",
          linker |-> [env |-> "None", maker |-> a[1], no_recycling |-> "unset"]]

\* _Linker.accept(env, no_recycling) on the linker self of ls.
\* Result: [linkers, ret, error], ret the linker returned (0: none).
RECURSIVE AcceptResult(_, _, _, _)
AcceptResult(ls, self, e, no_recycling) ==
    IF ls[self].env # "None" /\ ls[self].env # e
    THEN LET new == LinkerInit(<<ls[self].env, ls[self].maker>>)
         IN  IF new.error # ""
             THEN [linkers |-> ls, ret |-> 0, error |-> new.error]
             ELSE AcceptResult(Append(ls, new.linker), Len(ls) + 1, e, no_recycling)
    ELSE [linkers |-> [ls EXCEPT ![self].env = e,
                                 ![self].no_recycling = no_recycling],
          ret |-> self, error |-> ""]

\* linker = _Linker(maker)
LinkerNew ==
    /\ Len(linkers) < MaxLinkers
    /\ \E m \in Makers : linkers' = Append(linkers, LinkerInit(<<m>>).linker)
    /\ UNCHANGED <<accepted, mvars, fvars, tvars>>

\* linker.accept(env, no_recycling)
Accept ==
    /\ \E self \in DOMAIN linkers, e \in LinkerEnvs, nr \in NoRecyclingLists :
          LET x == AcceptResult(linkers, self, e, nr)
          IN  /\ Len(x.linkers) <= MaxLinkers
              /\ linkers' = x.linkers
              /\ accepted' = [self |-> self, env |-> e, no_recycling |-> nr,
                              ret |-> x.ret, error |-> x.error]
    /\ UNCHANGED <<mvars, fvars, tvars>>

InitL ==
    /\ \E m \in Makers : linkers = <<LinkerInit(<<m>>).linker>>
    /\ accepted = [self |-> 0, env |-> "None", no_recycling |-> "unset", ret |-> 0,
                   error |-> ""]
    /\ MakerIdle
    /\ TrackerIdle
    /\ FIdle
    /\ mode = NoMode

NextL ==
    \/ LinkerNew
    \/ Accept

SpecL == InitL /\ [][NextL]_vars

\* ------------------------------------------------------------------------
\* The properties.
\* ------------------------------------------------------------------------

\* f() returned without raising
Returned == pc = "done"

\* C1: whenever f() returns without raising, every entry (reason, old_r) of
\* the reason chain of every variable new_r, the owner-less ones included,
\* has values_eq_approx(r_vals[old_r], r_vals[new_r]).
C1_AllRewritesChecked ==
    Returned =>
        \A new_r \in Variables : \A j \in DOMAIN env.reasons[new_r] :
            ValuesEqApprox(mem, r_vals[env.reasons[new_r][j].r], r_vals[new_r])

\* the compiled thunk of the node has returned and both checks on its
\* inputs and aliases have passed; the reference thunk ran before it
BothRan == pc = "c_outputs" /\ thunks_py[node] /\ thunks_c[node]

\* no check on an output before position o raised, nor the validity check
\* on the output at position o
NoEarlierRaise(o) ==
    /\ \A k \in 0..o : IsValidValue(mem, storage_map[NodeOutputs(node)[k + 1]])
    /\ \A k \in 0..(o - 1) :
         ValuesEqApprox(mem, r_vals[NodeOutputs(node)[k + 1]],
                        storage_map[NodeOutputs(node)[k + 1]])

\* the exception is BadCLinkerOutput(r, val_py, val_c) with these contents
RaisedBadCLinkerOutput(x, r, val_py, val_c) ==
    /\ x.kind = "BadCLinkerOutput"
    /\ x.r = r
    /\ x.v1 = val_py
    /\ x.v2 = val_c

\* C2: when both thunks of a node ran, for every output r, provided no
\* earlier check raised: f() raises BadCLinkerOutput(r, val_py, val_c) if and
\* only if the value the compiled thunk left in r's cell is not
\* values_eq_approx to r_vals[r]; val_py is r_vals[r], val_c the cell's value.
C2_BadCLinkerOutputIff ==
    [][BothRan =>
         \A o \in OutputPositions(node) :
            LET r == NodeOutputs(node)[o + 1] IN
            NoEarlierRaise(o) =>
               /\ r \in DOMAIN r_vals
               /\ (pc' = "raised" /\
                   RaisedBadCLinkerOutput(err', r, mem[r_vals[r].buf],
                                          mem[storage_map[r].buf]))
                  <=> ~ValuesEqApprox(mem, r_vals[r], storage_map[r])]_vars

\* f() raised BadCLinkerOutput on the first output of node 2
C2_Witness ==
    /\ pc = "raised"
    /\ err.kind = "BadCLinkerOutput"
    /\ err.r = "b"
    /\ thunks_py[2] /\ thunks_c[2]

\* a thunk of the node has returned and _check_inputs is about to run
ThunkReturned == pc \in {"py_inputs", "c_inputs"}

\* the variables the op of the node lists under some output of its destroy_map
Listed ==
    {NodeInputs(env, node)[i + 1] :
        i \in UNION {Range(env.destroy_map[node][o]) : o \in DOMAIN env.destroy_map[node]}}

\* the cell of the input at position idx is not values_eq_approx to r_vals
Changed(idx) ==
    ~ValuesEqApprox(mem, r_vals[NodeInputs(env, node)[idx + 1]],
                    storage_map[NodeInputs(env, node)[idx + 1]])

\* the positions of the changed inputs that are not listed
ChangedUnlisted ==
    {idx \in InputPositions(env, node) :
        NodeInputs(env, node)[idx + 1] \notin Listed /\ Changed(idx)}

\* the exception is BadDestroyMap(node, idx, r_vals[r], cell of r)
RaisedBadDestroyMap(x, idx) ==
    /\ x.kind = "BadDestroyMap"
    /\ x.node = node
    /\ x.idx = idx
    /\ x.v1 = ContentOf(mem, r_vals[NodeInputs(env, node)[idx + 1]])
    /\ x.v2 = ContentOf(mem, storage_map[NodeInputs(env, node)[idx + 1]])

\* a changed, listed input of the active node at a position below idx was
\* already destroyed by another active node
AlreadyDestroyedBelow(idx) ==
    \E j \in 0..(idx - 1) :
        LET r == NodeInputs(env, node)[j + 1] IN
        /\ r \in Listed
        /\ Changed(j)
        /\ node \in ActiveOrderSet(env)
        /\ r \in DOMAIN dr_vals
        /\ dr_vals[r].node # node

\* every unlisted input cell is values_eq_approx to r_vals after the check
UnlistedUnchanged ==
    \A idx \in InputPositions(env, node) :
        NodeInputs(env, node)[idx + 1] \notin Listed =>
            ValuesEqApprox(mem', r_vals'[NodeInputs(env, node)[idx + 1]],
                           storage_map'[NodeInputs(env, node)[idx + 1]])

\* C3 as stated: after either thunk of any node, for every input position
\* idx whose variable is not listed in the destroy_map, if the cell is not
\* values_eq_approx to r_vals[input] then f() raises BadDestroyMap carrying
\* that node and idx; if the check passes every such cell is approximately
\* equal to r_vals[input].
C3_EveryUnlistedRaises ==
    [][ThunkReturned =>
         /\ \A idx \in ChangedUnlisted :
               pc' = "raised" /\ RaisedBadDestroyMap(err', idx)
         /\ pc' # "raised" => UnlistedUnchanged]_vars

\* C3 amended: if some unlisted input is changed, f() raises: BadDestroyMap
\* carrying the node and the lowest such position, or, when a listed input
\* at a lower position was already destroyed by another active node, the
\* 'failure in topological ordering' exception; if the check passes every
\* unlisted input cell is approximately equal to r_vals[input].
C3_LowestUnlistedRaises ==
    [][ThunkReturned =>
         /\ ChangedUnlisted # {} =>
               /\ pc' = "raised"
               /\ IF AlreadyDestroyedBelow(Min(ChangedUnlisted))
                  THEN err' = PlainErr("failure in topological ordering")
                  ELSE RaisedBadDestroyMap(err', Min(ChangedUnlisted))
         /\ pc' # "raised" => UnlistedUnchanged]_vars

\* the thunk of node 2 changed its second input, which is not listed, and
\* f() raised BadDestroyMap for it
C3_Witness ==
    /\ pc = "raised"
    /\ err.kind = "BadDestroyMap"
    /\ err.node = 2
    /\ err.idx = 1
    /\ err.v1 # err.v2

\* a thunk of the node has returned and _check_inputs and _check_viewmap
\* have both passed
ViewmapPassed == pc \in {"py_outputs", "c_outputs"}

\* the object the cell of input r held when the thunk returned: the copy
\* made for this thunk (lines 826 and 853), which no thunk replaces
HeldAtReturn(r) ==
    NewObj(IF pc = "py_outputs" THEN "in1" ELSE "in2", node, r)

\* the same object, or two objects on the same memory
SameOrShares(p, q) == p # NoneRef /\ q # NoneRef /\ (p.id = q.id \/ p.buf = q.buf)

\* C4: after a thunk of a node has run and the view-map check has passed,
\* every output o whose cell value is the same object as, or shares memory
\* with, the value input i's cell held when the thunk returned (also when
\* that input was just accepted as destroyed) has [i] == view_map[o] or
\* [i] == destroy_map[o].
C4_AliasesDeclared ==
    ViewmapPassed =>
        \A o \in OutputPositions(node), i \in InputPositions(env, node) :
            SameOrShares(storage_map[NodeOutputs(node)[o + 1]],
                         HeldAtReturn(NodeInputs(env, node)[i + 1]))
                => DeclaredAlias(env, node, o, i)

\* two event lists differ: in length, or at some position in kind, op, idx
\* or reason
EventsDiffer(p, q) ==
    \/ Len(p) # Len(q)
    \/ \E j \in 1..Len(p) :
          \/ p[j].kind # q[j].kind
          \/ p[j].op # q[j].op
          \/ p[j].idx # q[j].idx
          \/ p[j].reason # q[j].reason

\* C5: a _Maker with stability_patience = N >= 1 runs the optimizer once
\* per run, on a new clone whose tracker starts with an empty event list;
\* run 0 sets the reference list; each run i >= 1 raises StochasticOrder if
\* and only if its list differs from that of run 0 (so the first differing
\* run raises); nothing runs after a raise; when the constructor completes
\* the optimizer has run exactly N times and nothing was raised.
C5_StabilityLoop ==
    [][/\ mpc # "raised"
       /\ mpc = "optimize" =>
             /\ li = <<>>
             /\ run < mode.stability_patience
             /\ runs = run
             /\ runs' = runs + 1
             /\ \A j \in DOMAIN li' : li'[j].node \in {OutputNode, <<run, 1>>}
       /\ mpc = "compare" /\ run = 0 => l0' = li /\ mpc' # "raised"
       /\ run >= 1 => l0' = l0
       /\ mpc = "compare" /\ run >= 1 =>
             ((mpc' = "raised" /\ merr' = "StochasticOrder") <=> EventsDiffer(li, l0))
       /\ merr' = "StochasticOrder" =>
             run' \in 1..(mode.stability_patience - 1) /\ runs' = run' + 1
       /\ mpc' = "made" => runs' = mode'.stability_patience /\ merr' = ""]_vars

\* the third run recorded as many events as the first, one of them
\* different, and StochasticOrder was raised
C5_Witness ==
    /\ mpc = "raised"
    /\ merr = "StochasticOrder"
    /\ run = 2
    /\ runs = 3
    /\ Len(li) = Len(l0)

\* C7: constructing a DebugMode fails with the configuration error if and
\* only if check_c_code and check_py_code are both false; otherwise the mode
\* holds exactly the two flags and the stability_patience it was given.
C7_ConstructionFailsIff ==
    mpc # "new" =>
        /\ merr = "ValueError" <=> (~args.check_c_code /\ ~args.check_py_code)
        /\ merr # "ValueError" =>
              /\ mode.check_c_code = args.check_c_code
              /\ mode.check_py_code = args.check_py_code
              /\ mode.stability_patience = args.stability_patience

\* a mode that checks only the perform code was constructed
C7_Witness ==
    /\ mpc = "loop"
    /\ merr = ""
    /\ ~mode.check_c_code
    /\ mode.check_py_code
    /\ mode.stability_patience = 2

\* C8: _optcheck_env raises, before the optimizer is run on the clone, if
\* and only if accept_inplace is false and some node of the source graph has
\* an op with a non-empty destroy_map.
C8_InplaceRejectedIff ==
    [][/\ mpc = "loop" /\ run < mode.stability_patience =>
             ((mpc' = "raised" /\ merr' = "TypeError")
                <=> (~accept_inplace /\ \E k \in DOMAIN source : source[k] = "nonempty"))
       /\ merr' = "TypeError" => mpc' = "raised" /\ runs' = 0]_vars

\* the graph with an in-place op was rejected
C8_Witness ==
    /\ merr = "TypeError"
    /\ ~accept_inplace
    /\ source = <<"empty", "nonempty">>
    /\ runs = 0

\* the exception is InvalidValueError(r, value of the cell of r)
RaisedInvalidValue(x, r) ==
    /\ x.kind = "InvalidValueError"
    /\ x.r = r
    /\ x.v1 = ContentOf(mem, storage_map[r])

\* the output at position o is the first one of the node to fail a check,
\* and the check it fails is is_valid_value
FirstInvalidOutput(o) ==
    /\ ~IsValidValue(mem, storage_map[NodeOutputs(node)[o + 1]])
    /\ \A k \in 0..(o - 1) :
         LET r == NodeOutputs(node)[k + 1] IN
         /\ IsValidValue(mem, storage_map[r])
         /\ r \in DOMAIN r_vals => ValuesEqApprox(mem, r_vals[r], storage_map[r])

\* C6: every value stored in r_vals passed is_valid_value of its variable's
\* type before it was stored: the supplied value of a graph input or
\* constant, and the value a thunk produced for a node output; an entry is
\* never replaced; a value that fails the check makes f() raise
\* InvalidValueError naming the variable and the value.
C6_StoredValuesValid ==
    [][/\ \A v \in DOMAIN r_vals' :
             IF v \in DOMAIN r_vals
             THEN r_vals'[v] = r_vals[v]
             ELSE r_vals'[v] = storage_map[v] /\ IsValidValue(mem, storage_map[v])
       /\ DOMAIN r_vals \subseteq DOMAIN r_vals'
       /\ (/\ pc = "start"
           /\ \A r \in OwnerLess : storage_map[r] # NoneRef
           /\ \E r \in OwnerLess : ~IsValidValue(mem, storage_map[r]))
          => /\ pc' = "raised"
             /\ \E r \in OwnerLess :
                   ~IsValidValue(mem, storage_map[r]) /\ RaisedInvalidValue(err', r)
       /\ pc \in {"py_outputs", "c_outputs"} =>
             \A o \in OutputPositions(node) :
                FirstInvalidOutput(o) =>
                   pc' = "raised" /\ RaisedInvalidValue(err', NodeOutputs(node)[o + 1])]_vars

\* f() returned and the value of b in r_vals is the one the compiled thunk
\* of node 2 produced
C6_Witness ==
    /\ Returned
    /\ ~thunks_py[2]
    /\ thunks_c[2]
    /\ "b" \in DOMAIN r_vals
    /\ IsValidValue(mem, r_vals["b"])

\* C9: after f() returns without raising, the cell of every graph input
\* that an active node lists in its destroy_map, and whose cell that node's
\* thunk changed, holds the value the thunk left, in every backend
\* configuration.
C9_DestroyedInputReturned ==
    Returned =>
        \A p \in post_vals :
            ContentOf(mem, storage_map[p[1]]) \in {q[2] : q \in {u \in post_vals : u[1] = p[1]}}

\* the object and the content the cell of the owner-less variable r held
\* when f() was called
HeldAtCall(r) == InitialStorage(supplied["x"])[r]

ContentAtCall(r) == InitialMem(supplied["x"])[HeldAtCall(r).buf]

\* the cell of an owner-less variable after f(): the destroyed value if
\* there is one, the value it held at the call otherwise
OwnerLessRestored(r) ==
    /\ storage_map[r] # NoneRef
    /\ IF r \in DOMAIN dr_vals
       THEN ContentOf(mem, storage_map[r]) = ContentOf(mem, dr_vals[r].val)
       ELSE /\ storage_map[r] = HeldAtCall(r)
            /\ ContentOf(mem, storage_map[r]) = ContentAtCall(r)

\* C10 as stated: when f() returns, the cell of each designated output
\* holds r_vals[output]; the cell of each owner-less variable is non-empty
\* and holds the value it held at the call or, with a dr_vals entry, the
\* destroyed value; every other cell is empty.
C10_ResultTransfer ==
    Returned =>
        /\ \A k \in DOMAIN env.outputs :
              storage_map[env.outputs[k]] = r_vals[env.outputs[k]]
        /\ \A r \in OwnerLess : OwnerLessRestored(r)
        /\ \A v \in Variables \ (OwnerLess \cup Range(env.outputs)) :
              storage_map[v] = NoneRef

\* C10 amended: the cell of each designated output without a dr_vals entry
\* holds r_vals[output]; the rest as stated (a designated output that is a
\* destroyed graph input holds the destroyed value).
C10_ResultTransferAmended ==
    Returned =>
        /\ \A k \in DOMAIN env.outputs :
              env.outputs[k] \notin DOMAIN dr_vals =>
                 storage_map[env.outputs[k]] = r_vals[env.outputs[k]]
        /\ \A r \in OwnerLess : OwnerLessRestored(r)
        /\ \A v \in Variables \ (OwnerLess \cup Range(env.outputs)) :
              storage_map[v] = NoneRef

\* f() returned after node 2 destroyed the graph input x, which is also a
\* designated output
C10_Witness ==
    /\ Returned
    /\ "x" \in DOMAIN dr_vals
    /\ "x" \in Range(env.outputs)
    /\ ContentOf(mem, storage_map["x"]) # supplied["x"]
    /\ storage_map["b"] = r_vals["b"]

\* the entry of v in r_vals is kept by the step: the same object with the
\* same content
EntryKept(v) ==
    /\ v \in DOMAIN r_vals'
    /\ r_vals'[v] = r_vals[v]
    /\ ContentOf(mem', r_vals'[v]) = ContentOf(mem, r_vals[v])

\* C11: within one call of f(), r_vals[v] is assigned at most once and the
\* stored value is never modified afterwards: not by a thunk, not by a
\* check, and not by the transfer of the destroyed values back into the
\* cells of the graph inputs.
C11_NeverModified ==
    [][\A v \in DOMAIN r_vals : EntryKept(v)]_vars

\* both thunks of node n exist
BothThunks(n) == thunks_py[n] /\ thunks_c[n]

\* f() is between the re-binding of the inputs for thunk_c and the end of
\* the handling of thunk_c's outputs
CompiledPhase == pc \in {"rebind", "c", "c_inputs", "c_viewmap", "c_outputs"}

\* the object was made by the perform thunk of node n, or is one of the
\* input objects that were bound for it
FromReference(ref, n) == ref.id[1] \in {"py", "in1"} /\ ref.id[2] = n

\* C12: for every node with both thunks the perform thunk runs first, and
\* the value of each output in r_vals is the one the perform thunk produced:
\* it is stored before the compiled thunk runs, the compiled thunk's output
\* is compared against it and dropped, and no later step of f() changes it.
C12_ReferenceValueKept ==
    /\ [](\A n \in Nodes : BothThunks(n) =>
            /\ (CompiledPhase /\ node = n) =>
                  \A o \in Range(NodeOutputs(n)) : o \in DOMAIN r_vals
            /\ \A o \in Range(NodeOutputs(n)) \cap DOMAIN r_vals :
                  FromReference(r_vals[o], n))
    /\ [][\A n \in Nodes : BothThunks(n) =>
            /\ \A o \in Range(NodeOutputs(n)) \cap DOMAIN r_vals : EntryKept(o)
            /\ (pc = "c_outputs" /\ node = n /\ pc' = "clear") =>
                  \A o \in Range(NodeOutputs(n)) : storage_map'[o] = NoneRef]_vars

\* the compiled thunk of node 1 has produced a value for a that differs from
\* the one its perform thunk produced, which r_vals holds
C12_Witness ==
    /\ pc = "c_outputs"
    /\ node = 1
    /\ BothThunks(1)
    /\ FromReference(r_vals["a"], 1)
    /\ storage_map["a"].id[1] = "c"
    /\ ContentOf(mem, storage_map["a"]) # ContentOf(mem, r_vals["a"])
    /\ ValuesEqApprox(mem, r_vals["a"], storage_map["a"])

\* _Maker.__init__ returned: every run of the optimizer produced an event
\* log equal to the first one
Made == mpc = "made"

\* the events of the log were recorded on the graph of run c
LogOfRun(l, c) == \A j \in DOMAIN l : l[j].node = OutputNode \/ l[j].node[1] = c

\* C13 as stated: when all N runs of the optimizer produce equal event logs,
\* the graph and the tracker that _Maker hands to the linker are those of
\* the first run, for every N >= 1.
C13_FirstGraphKept ==
    Made => kept = 0 /\ LogOfRun(li, 0)

\* C13 amended: the graph and the tracker handed to the linker are those of
\* the last of the N runs.
C13_LastGraphKept ==
    Made =>
        /\ runs = mode.stability_patience
        /\ kept = mode.stability_patience - 1
        /\ LogOfRun(li, kept)
        /\ LogOfRun(l0, 0)
        /\ ~ListNe(li, l0)

\* two runs recorded equal, non-empty logs and the maker kept a graph
C13_Witness ==
    /\ Made
    /\ mode.stability_patience = 2
    /\ Len(li) = 2
    /\ li # l0
    /\ kept = 1

\* the equivalence class of the tracked variable v
ClassOf(v) == classes[equiv[v]]

\* C14: once w is a member of the equivalence class of v, it is a member of
\* the class of v in every later state: no import, prune or rewire event
\* removes a variable from equiv or from a class.
C14_MembershipMonotone ==
    [][\A v \in DOMAIN equiv :
          /\ v \in DOMAIN equiv'
          /\ ClassOf(v) \subseteq classes'[equiv'[v]]]_vars

\* node 1 was pruned after its output a was replaced by b; a and b are
\* still in one class
C14_Witness ==
    /\ tpc = "attached"
    /\ 1 \in inactive_nodes
    /\ "a" \in DOMAIN equiv
    /\ "b" \in ClassOf("a")
    /\ "a" \in ClassOf("b")

\* the nodes on_import has accepted
EverImported == active_nodes \cup inactive_nodes

\* no callback has raised
TrackerSound == tpc = "attached"

\* C15: after any sequence of import, prune and rewire events every output
\* of every node ever imported is a key of equiv and a member of its own
\* class; every member of the class of a key is a key that references the
\* very same set object; so the classes partition the tracked variables.
C15_ClassesPartition ==
    TrackerSound =>
        /\ \A n \in EverImported : \A v \in Range(NodeOutputs(n)) :
              v \in DOMAIN equiv /\ v \in ClassOf(v)
        /\ \A v \in DOMAIN equiv : \A w \in ClassOf(v) :
              w \in DOMAIN equiv /\ equiv[w] = equiv[v]
        /\ \A c1 \in DOMAIN classes, c2 \in DOMAIN classes :
              c1 # c2 => classes[c1] \cap classes[c2] = {}
        /\ \A v \in DOMAIN equiv :
              Cardinality({c \in DOMAIN classes : v \in classes[c]}) = 1

\* the class {b, b2} was merged into the class of a: both members were
\* re-pointed to the set object of a
C15_Witness ==
    /\ TrackerSound
    /\ {"a", "b", "b2"} \subseteq DOMAIN equiv
    /\ equiv["b"] = equiv["a"]
    /\ equiv["b2"] = equiv["a"]
    /\ ClassOf("a") = {"a", "b", "b2"}
    /\ Len(tracker_reasons["b"]) = 1
    /\ Len(tracker_reasons["b2"]) = 1

\* C16: in every reachable state of the tracker all variables of one
\* equivalence class have the same type: no rewire event merges the classes
\* of two variables whose types differ.
C16_SingleTypeClasses ==
    \A v \in DOMAIN equiv : \A w \in ClassOf(v) : TypeOf[w] = TypeOf[v]

\* the step is the callback on_change_input(c.node, c.i, r, new_r, c.reason)
IsChangeInput(c, r, new_r) ==
    /\ Listening
    /\ r # new_r
    /\ event_list' = Append(event_list, EnvEvent("change", c.node, c.i, c.reason))
    /\ Becomes(ChangeInputResult(TrackerState, c.node, c.i, r, new_r, c.reason))

\* the classes of the variable v before the callback, {} if it had none
FormerClass(v) == IF v \in DOMAIN equiv THEN ClassOf(v) ELSE {v}

\* C17: every rewire event on_change_input(node, i, r, new_r, reason), in
\* any tracker state, with node an Apply node or 'output', with r or new_r
\* seen before or not, completes without error, and afterwards equiv[r] and
\* equiv[new_r] are the same class, which contains every member of both
\* former classes.
C17_RewireMerges ==
    [][\A c \in RewireClients, r \in TrackedVariables, new_r \in TrackedVariables :
          IsChangeInput(c, r, new_r) =>
             /\ tpc' = "attached"
             /\ r \in DOMAIN equiv'
             /\ new_r \in DOMAIN equiv'
             /\ equiv'[r] = equiv'[new_r]
             /\ FormerClass(r) \cup FormerClass(new_r) \subseteq classes'[equiv'[r]]]_vars

\* the step is the callback on_import(n)
IsImport(n) ==
    /\ Listening
    /\ event_list' = Append(event_list, EnvEvent("import", TrackedNode(n), -2, ""))
    /\ Becomes(ImportResult(TrackerState, n))

\* C18: the import of a node that was imported and pruned before leaves the
\* equivalence class and the reason chain of each of its outputs as they
\* were, does not append the outputs to all_variables_ever again, and moves
\* the node from inactive_nodes back to active_nodes.
C18_ReimportKeeps ==
    [][\A n \in Nodes :
          (n \in inactive_nodes /\ IsImport(n)) =>
             /\ tpc' = "attached"
             /\ \A v \in Range(NodeOutputs(n)) :
                   /\ v \in DOMAIN equiv'
                   /\ equiv'[v] = equiv[v]
                   /\ classes'[equiv'[v]] = ClassOf(v)
                   /\ tracker_reasons'[v] = tracker_reasons[v]
             /\ all_variables_ever' = all_variables_ever
             /\ n \notin active_nodes
             /\ active_nodes' = active_nodes \cup {n}
             /\ inactive_nodes' = inactive_nodes \ {n}]_vars

\* node 1 was imported, its output a was replaced by x, it was pruned and
\* imported again
C18_Witness ==
    /\ TrackerSound
    /\ Len(event_list) = 4
    /\ event_list[1] = EnvEvent("import", TrackedNode(1), -2, "")
    /\ event_list[2].kind = "change"
    /\ event_list[3] = EnvEvent("prune", TrackedNode(1), -2, "")
    /\ event_list[4] = EnvEvent("import", TrackedNode(1), -2, "")
    /\ 1 \in active_nodes
    /\ 1 \notin inactive_nodes
    /\ tracker_reasons["x"] = <<<<"opt", "a">>>>
    /\ ClassOf("a") = {"a", "x"}
    /\ all_variables_ever = <<"a", "x">>

\* the reason chain has no two entries with the same reason and the same
\* replaced variable
NoDuplicate(chain) ==
    \A j \in DOMAIN chain, k \in DOMAIN chain : j # k => chain[j] # chain[k]

\* reasons[new_r] already has the pair (reason, r)
AlreadyRecorded(new_r, reason, r) ==
    /\ new_r \in DOMAIN tracker_reasons
    /\ \E k \in DOMAIN tracker_reasons[new_r] : tracker_reasons[new_r][k] = <<reason, r>>

\* C19: no reason chain has two entries with the same reason and the same
\* replaced variable; a rewire whose (reason, r) pair is already in the
\* reason chain of new_r changes neither reasons, nor replaced_by, nor the
\* equivalence classes, nor all_variables_ever, and appends one 'change'
\* event.
C19_RewireIdempotent ==
    /\ [](\A v \in DOMAIN tracker_reasons : NoDuplicate(tracker_reasons[v]))
    /\ [][\A c \in RewireClients, r \in TrackedVariables, new_r \in TrackedVariables :
             (AlreadyRecorded(new_r, c.reason, r) /\ IsChangeInput(c, r, new_r)) =>
                /\ tpc' = "attached"
                /\ tracker_reasons' = tracker_reasons
                /\ replaced_by' = replaced_by
                /\ equiv' = equiv
                /\ classes' = classes
                /\ all_variables_ever' = all_variables_ever
                /\ event_list' = Append(event_list,
                                        EnvEvent("change", c.node, c.i, c.reason))]_vars

\* a was replaced by b twice for the same reason, through two clients: the
\* chain of b has the one entry
C19_Witness ==
    /\ TrackerSound
    /\ Len(event_list) = 4
    /\ event_list[3] = EnvEvent("change", TrackedNode(1), 0, "opt")
    /\ event_list[4] = EnvEvent("change", OutputNode, 0, "opt")
    /\ "b" \in DOMAIN tracker_reasons
    /\ "a" \in DOMAIN replaced_by
    /\ tracker_reasons["b"] = <<<<"opt", "a">>>>
    /\ replaced_by["a"] = <<<<"opt", "b">>>>
    /\ \A v \in DOMAIN tracker_reasons \ {"b"} : tracker_reasons[v] = <<>>

\* p is a prefix of q
IsPrefix(p, q) == Len(p) <= Len(q) /\ \A k \in DOMAIN p : q[k] = p[k]

\* line 709-710: the copy of all_variables_ever, reversed
order_outputs(ave) == [k \in 1..Len(ave) |-> ave[Len(ave) + 1 - k]]

\* line 711: the nodes of graph.io_toposort(env.inputs, order_outputs)
LinkerOrder(ave) ==
    Ancestors(GraphChain, {OwnerOf[v] : v \in Range(order_outputs(ave))} \ {0})

\* C20: across any sequence of tracker events all_variables_ever is
\* append-only and has no variable twice; in every state its elements are
\* the keys of equiv; so the outputs of pruned nodes stay in it and their
\* nodes are in the linker's evaluation order.
C20_AllVariablesEver ==
    /\ [][IsPrefix(all_variables_ever, all_variables_ever')]_vars
    /\ [](/\ \A j \in DOMAIN all_variables_ever, k \in DOMAIN all_variables_ever :
                j # k => all_variables_ever[j] # all_variables_ever[k]
          /\ Range(all_variables_ever) = DOMAIN equiv
          /\ \A n \in inactive_nodes :
                /\ Range(NodeOutputs(n)) \subseteq Range(all_variables_ever)
                /\ n \in LinkerOrder(all_variables_ever))

\* the output a of node 1 was replaced by the graph input x, which the
\* rewire logged; node 1 was pruned and is still evaluated
C20_Witness ==
    /\ TrackerSound
    /\ inactive_nodes = {1}
    /\ active_nodes = {}
    /\ all_variables_ever = <<"a", "x">>
    /\ DOMAIN equiv = {"a", "x"}
    /\ 1 \in LinkerOrder(all_variables_ever)

\* the step is the callback on_prune(n)
IsPrune(n) ==
    /\ Listening
    /\ event_list' = Append(event_list, EnvEvent("prune", TrackedNode(n), -2, ""))
    /\ Becomes(PruneResult(TrackerState, n))

\* C21: on_prune(node) for an active node moves the node from active_nodes
\* to inactive_nodes, appends exactly one 'prune' event, and leaves equiv,
\* all_variables_ever, reasons and replaced_by unchanged; the outputs of the
\* node stay in the classes they were in.
C21_PruneFrame ==
    [][\A n \in Nodes :
          (n \in active_nodes /\ IsPrune(n)) =>
             /\ tpc' = "attached"
             /\ n \notin inactive_nodes
             /\ active_nodes' = active_nodes \ {n}
             /\ inactive_nodes' = inactive_nodes \cup {n}
             /\ event_list' = Append(event_list, EnvEvent("prune", TrackedNode(n), -2, ""))
             /\ equiv' = equiv
             /\ classes' = classes
             /\ all_variables_ever' = all_variables_ever
             /\ tracker_reasons' = tracker_reasons
             /\ replaced_by' = replaced_by
             /\ \A v \in Range(NodeOutputs(n)) :
                   v \in DOMAIN equiv' /\ classes'[equiv'[v]] = ClassOf(v)]_vars

\* node 2 was imported, its outputs were merged into one class, and the
\* node was pruned last: b and b2 are still in that class
C21_Witness ==
    /\ TrackerSound
    /\ Len(event_list) = 3
    /\ event_list[1] = EnvEvent("import", TrackedNode(2), -2, "")
    /\ event_list[2].kind = "change"
    /\ event_list[3] = EnvEvent("prune", TrackedNode(2), -2, "")
    /\ active_nodes = {}
    /\ inactive_nodes = {2}
    /\ ClassOf("b") = {"b", "b2"}
    /\ all_variables_ever = <<"b", "b2">>

\* the positions of the import and prune events of node n in event_list
NodeEvents(n) ==
    {k \in DOMAIN event_list :
        /\ event_list[k].node = TrackedNode(n)
        /\ event_list[k].kind \in {"import", "prune"}}

\* the most recent import or prune event of node n
LastNodeEvent(n) ==
    event_list[CHOOSE k \in NodeEvents(n) : \A j \in NodeEvents(n) : j <= k]

\* the nodes with an import event in event_list
ImportedNodes ==
    {n \in Nodes : \E k \in NodeEvents(n) : event_list[k].kind = "import"}

\* C22: in every reachable tracker state active_nodes and inactive_nodes are
\* disjoint; while every callback has returned (so every recorded event was
\* accepted) their union is the set of the nodes with an import event, and a
\* node is in inactive_nodes exactly when its most recent import or prune
\* event is a prune.
C22_ActiveInactive ==
    /\ active_nodes \cap inactive_nodes = {}
    /\ TrackerSound =>
          /\ EverImported = ImportedNodes
          /\ \A n \in Nodes :
                n \in inactive_nodes <=>
                   (NodeEvents(n) # {} /\ LastNodeEvent(n).kind = "prune")

\* node 1 was imported, pruned, imported again and pruned again while node 2
\* was never imported
C22_Witness ==
    /\ TrackerSound
    /\ Len(event_list) = 4
    /\ event_list[3] = EnvEvent("import", TrackedNode(1), -2, "")
    /\ event_list[4] = EnvEvent("prune", TrackedNode(1), -2, "")
    /\ NodeEvents(1) = 1..4
    /\ inactive_nodes = {1}
    /\ active_nodes = {}

\* the kind, op, idx and reason fields of the two events are pairwise equal
SameFields(e1, e2) ==
    /\ e1.kind = e2.kind
    /\ e1.op = e2.op
    /\ e1.idx = e2.idx
    /\ e1.reason = e2.reason

\* the two runs fired the same callbacks in the same order on corresponding
\* nodes of their graphs
SameCallbacks(p, q) ==
    /\ Len(p) = Len(q)
    /\ \A j \in DOMAIN p :
          /\ p[j].kind = q[j].kind
          /\ p[j].idx = q[j].idx
          /\ p[j].reason = q[j].reason
          /\ (p[j].node = OutputNode) = (q[j].node = OutputNode)
          /\ p[j].node # OutputNode => p[j].node[2] = q[j].node[2]

\* C23: two _EnvEvent records compare equal exactly when their kind, op, idx
\* and reason fields are pairwise equal, whatever their nodes; the relation
\* is reflexive, symmetric and transitive, and __ne__ is its negation; the
\* event lists of two runs over distinct clones of the graph that fired the
\* same callbacks in the same order compare equal.
C23_EventEquality ==
    /\ mpc = "compare" =>
          \A e1 \in Range(li), e2 \in Range(l0) :
             /\ EnvEventEq(e1, e2) = SameFields(e1, e2)
             /\ EnvEventEq(e1, e1)
             /\ EnvEventEq(e1, e2) = EnvEventEq(e2, e1)
             /\ EnvEventNe(e1, e2) = ~EnvEventEq(e1, e2)
             /\ \A e3 \in Range(li) :
                   (EnvEventEq(e1, e2) /\ EnvEventEq(e2, e3)) => EnvEventEq(e1, e3)
    /\ (run # 0 /\ mpc \in {"compare", "loop", "made"} /\ SameCallbacks(li, l0))
          => ~ListNe(li, l0)

\* the second run recorded a change of a node input and one of the output
\* on its own clone, as the first run did on its clone, and was accepted
C23_Witness ==
    /\ mpc = "loop"
    /\ run = 2
    /\ l0 = <<EnvEvent("change", <<0, 1>>, 0, "opt"), EnvEvent("change", OutputNode, 0, "opt")>>
    /\ li = <<EnvEvent("change", <<1, 1>>, 0, "opt"), EnvEvent("change", OutputNode, 0, "opt")>>
    /\ li # l0
    /\ SameCallbacks(li, l0)

\* f() is between two node steps, or past the last one
BetweenSteps == pc \in {"bind", "find_bad_optimizations", "transfer"}

\* f() is inside the step of the node at position ni
InStep ==
    pc \in {"py", "py_inputs", "py_viewmap", "py_outputs", "rebind",
            "c", "c_inputs", "c_viewmap", "c_outputs", "clear"}

\* the variables whose storage cell holds a value
NonEmptyCells == {v \in Variables : storage_map[v] # NoneRef}

\* C24: during f(), at the start of every node's evaluation step and after
\* the last step every storage cell is empty, the cells of the graph inputs
\* and of the designated outputs included; while a node's step is in
\* progress only cells of inputs and outputs of that node are non-empty.
C24_CellsEmpty ==
    /\ BetweenSteps => NonEmptyCells = {}
    /\ InStep => NonEmptyCells \subseteq
                    Range(NodeInputs(env, node)) \cup Range(NodeOutputs(node))

\* both thunks of both nodes have run, node 2 has destroyed an input, and
\* every cell is empty before the results are transferred
C24_Witness ==
    /\ pc = "transfer"
    /\ BothThunks(1)
    /\ BothThunks(2)
    /\ dr_vals # <<>>
    /\ {"x", "y", "a", "b"} \subseteq DOMAIN r_vals
    /\ NonEmptyCells = {}

\* a thunk is about to be invoked: thunk_py() (line 831) or thunk_c() (855)
BeforeThunk == pc \in {"py", "c"}

\* the cell of r holds a value equal to r_vals[r] that is another object and
\* shares storage with no entry of r_vals
FreshCopy(r) ==
    /\ r \in DOMAIN r_vals
    /\ storage_map[r] # NoneRef
    /\ storage_map[r].own
    /\ mem[storage_map[r].buf] = mem[r_vals[r].buf]
    /\ \A v \in DOMAIN r_vals :
          /\ storage_map[r].id # r_vals[v].id
          /\ storage_map[r].buf # r_vals[v].buf

\* C25: immediately before each thunk invocation, of the reference thunk and
\* of the compiled thunk of the same node, every input cell of the node
\* holds a fresh deep copy of r_vals[input]: an equal value that is another
\* object and shares no storage with any r_vals entry; so the invocation
\* changes no r_vals entry.
C25_FreshCopies ==
    /\ [](BeforeThunk => \A r \in Range(NodeInputs(env, node)) : FreshCopy(r))
    /\ [][BeforeThunk =>
             \A v \in DOMAIN r_vals :
                /\ v \in DOMAIN r_vals'
                /\ r_vals'[v] = r_vals[v]
                /\ r_vals[v].buf \in DOMAIN mem'
                /\ mem'[r_vals[v].buf] = mem[r_vals[v].buf]]_vars

\* the compiled thunk of node 1 is about to run after the reference thunk
\* returned a view of its input x and destroyed it: r_vals[a] is that view,
\* the cell of x was emptied and now holds a new copy of r_vals[x]
C25_Witness ==
    /\ pc = "c"
    /\ ni = 1
    /\ "x" \in DOMAIN dr_vals
    /\ "a" \in DOMAIN r_vals
    /\ ~r_vals["a"].own
    /\ r_vals["a"].buf = dr_vals["x"].val.buf
    /\ mem[r_vals["a"].buf] # mem[r_vals["x"].buf]
    /\ FreshCopy("x")

\* f() has been built by make_all
Linked == pc # "unlinked"

\* C26: for every node of the evaluation order at least one of its two
\* thunks is run, so after the node's step every output of the node has an
\* r_vals entry; hence every input a later node binds has an r_vals entry,
\* and neither the bad-optimization lookups nor the final read of
\* r_vals[output] fails with a KeyError.
C26_EveryNodeEvaluated ==
    Linked =>
        /\ \A n \in Nodes : thunks_py[n] \/ thunks_c[n]
        /\ pc = "clear" => Range(NodeOutputs(node)) \subseteq DOMAIN r_vals
        /\ pc = "bind" => Range(NodeInputs(env, node)) \subseteq DOMAIN r_vals
        /\ err # PlainErr("KeyError")

\* the stages that may follow the stage f() is at, in the order of lines
\* 801-929
NextPcs ==
    CASE pc = "start" -> {"bind"}
      [] pc = "bind" -> {AfterBind(node)}
      [] pc = "py" -> {"py_inputs"}
      [] pc = "py_inputs" -> {"py_viewmap"}
      [] pc = "py_viewmap" -> {"py_outputs"}
      [] pc = "py_outputs" -> {IF thunks_c[node] THEN "rebind" ELSE "clear"}
      [] pc = "rebind" -> {"c"}
      [] pc = "c" -> {"c_inputs"}
      [] pc = "c_inputs" -> {"c_viewmap"}
      [] pc = "c_viewmap" -> {"c_outputs"}
      [] pc = "c_outputs" -> {"clear"}
      [] pc = "clear" -> {IF ni < Len(order) THEN "bind" ELSE "find_bad_optimizations"}
      [] pc = "find_bad_optimizations" -> {"transfer"}
      [] pc = "transfer" -> {"done"}
      [] OTHER -> {}

\* the output positions of the node whose cell holds an invalid value
InvalidOutputs ==
    {o \in OutputPositions(node) : ~IsValidValue(mem, storage_map[NodeOutputs(node)[o + 1]])}

\* the output positions whose compiled value is valid and differs from the
\* reference value
DifferingOutputs ==
    {o \in OutputPositions(node) \ InvalidOutputs :
        /\ NodeOutputs(node)[o + 1] \in DOMAIN r_vals
        /\ ~ValuesEqApprox(mem, r_vals[NodeOutputs(node)[o + 1]],
                           storage_map[NodeOutputs(node)[o + 1]])}

\* the error of the first failing check on the output at position o after
\* thunk_c: its validation, then its comparison
OutputErrorC(o) ==
    LET r == NodeOutputs(node)[o + 1]
    IN  IF o \in InvalidOutputs
        THEN InvalidValueError(mem, r, storage_map[r])
        ELSE BadCLinkerOutput(mem, r, r_vals[r], storage_map[r])

\* the step follows the order of the stages of f(), and a stage up to the
\* view-map check that finds a violation raises the error of that stage
StagesInOrder ==
    /\ pc' \in NextPcs \cup {"raised"}
    /\ ni' = IF pc = "clear" /\ ni < Len(order) THEN ni + 1 ELSE ni
    /\ err'.kind = "BadOptimization" =>
          pc = "find_bad_optimizations" /\ ni = Len(order)
    /\ \A ph \in {"py", "c"} :
          /\ pc = InputsPc(ph) =>
                LET x == CheckInputs(env, node, storage_map, dr_vals, r_vals, mem,
                                     ph = "py").err
                IN  x # NoErr => pc' = "raised" /\ err' = x
          /\ pc = ViewmapPc(ph) =>
                LET x == CheckViewmap(env, node, storage_map, mem, isarr)
                IN  x # NoErr => pc' = "raised" /\ err' = x
    /\ (pc = "py_outputs" /\ InvalidOutputs # {}) =>
          LET r == NodeOutputs(node)[Min(InvalidOutputs) + 1]
          IN  pc' = "raised" /\ err' = InvalidValueError(mem, r, storage_map[r])

\* C27 as stated: the stages of f() run in the fixed order, the
\* bad-optimization check after the last node, and of several violations the
\* one whose check comes first in the order is raised; after thunk_c the
\* validation of the outputs comes before the comparison with the reference
\* values, so an invalid output is reported before a differing one.
C27_ValidationBeforeComparison ==
    [][/\ StagesInOrder
       /\ (pc = "c_outputs" /\ InvalidOutputs # {}) =>
             LET r == NodeOutputs(node)[Min(InvalidOutputs) + 1]
             IN  pc' = "raised" /\ err' = InvalidValueError(mem, r, storage_map[r])]_vars

\* C27, amended: the same order of stages, with the outputs handled one at a
\* time in position order after thunk_c: each output is validated and then
\* compared with its reference value before the next output is validated,
\* so the error raised is the one of the lowest output position that fails
\* either check.
C27_CheckOrder ==
    [][/\ StagesInOrder
       /\ (pc = "c_outputs" /\ InvalidOutputs \cup DifferingOutputs # {}) =>
             /\ pc' = "raised"
             /\ err' = OutputErrorC(Min(InvalidOutputs \cup DifferingOutputs))]_vars

\* BadCLinkerOutput was raised for output b of node 2 while the cell of the
\* later output b2 holds an invalid value
C27_Witness ==
    /\ pc = "raised"
    /\ ni = 2
    /\ err.kind = "BadCLinkerOutput"
    /\ err.r = "b"
    /\ storage_map["b2"] # NoneRef
    /\ ~IsValidValue(mem, storage_map["b2"])

\* C28: within one call of f(), dr_vals[v] is assigned at most once for
\* each variable v, also when v occupies several input positions of the
\* destroying node; every entry (value, node) has node in the active order,
\* v an input of node listed in the destroy_map of node, and a value that
\* is not None.
C28_DestroyedValuesOnce ==
    /\ [](\A v \in DOMAIN dr_vals :
             /\ dr_vals[v].node \in ActiveOrderSet(env)
             /\ v \in DestroyedResList(env, dr_vals[v].node)
             /\ dr_vals[v].val # NoneRef)
    /\ [][\A v \in DOMAIN dr_vals :
             v \in DOMAIN dr_vals' /\ dr_vals'[v] = dr_vals[v]]_vars

\* the inputs of the node being checked whose cell differs from r_vals
ChangedInputs ==
    {r \in Range(NodeInputs(env, node)) : ~ValuesEqApprox(mem, r_vals[r], storage_map[r])}

\* the destroy-map check of node 2 is about to run after the active node 1
\* changed a graph input that both nodes list in their destroy_map, and the
\* thunk of node 2 has changed it too, and no unlisted input
SecondDestroyer(ph) ==
    /\ pc = InputsPc(ph)
    /\ ni = 2
    /\ {1, 2} \subseteq ActiveOrderSet(env)
    /\ ChangedInputs \subseteq DestroyedResList(env, 2)
    /\ \E v \in ChangedInputs \cap DestroyedResList(env, 1) :
          \E c \in Contents : <<v, c>> \in post_vals

TopologicalFailure == PlainErr("failure in topological ordering")

\* C29: if two distinct active nodes of the evaluation order each list the
\* same variable v in their destroy_map and each changes the cell of v, f()
\* raises 'failure in topological ordering' when the second of them is
\* checked, with the reference backend, the compiled backend or both; the
\* error is only raised for an active node, against the entry of another
\* active node.
C29_TopologicalFailure ==
    [][/\ \A ph \in {"py", "c"} :
             SecondDestroyer(ph) => pc' = "raised" /\ err' = TopologicalFailure
       /\ (err' = TopologicalFailure /\ err # TopologicalFailure) =>
             /\ node \in ActiveOrderSet(env)
             /\ \E v \in DOMAIN dr_vals :
                   /\ dr_vals[v].node # node
                   /\ dr_vals[v].node \in ActiveOrderSet(env)]_vars

\* v has at least one client and its clients are not solely designated-output
\* pseudo-clients, at whatever position v is designated
ConsumedDownstream(v) == \E c \in Clients(env, v) : c[1] # 0

\* the view-map check of the outputs before position o raises nothing, nor
\* does the input-alias check of the output at position o
ReachesOutputCheck(o) ==
    /\ \A oi \in 0..o : BadAlias(env, node, oi, storage_map, isarr) = {}
    /\ \A oi \in 0..(o - 1) :
          ~(/\ GoodAlias(env, node, oi, storage_map, isarr) = {}
            /\ IsUsedInGraph(env, NodeOutputs(node)[oi + 1])
            /\ AliasedOutputs(env, node, oi, storage_map, isarr) # {})

\* the step raises the output-aliased form of BadViewMap for the output at
\* position o
RaisesOutputAliased(o) ==
    /\ pc' = "raised"
    /\ err'.kind = "BadViewMap"
    /\ err'.r = NodeOutputs(node)[o + 1]
    /\ err'.aliases = {}
    /\ err'.idx \in OutputPositions(node) \ {o}

\* C30: for a node with two outputs o and o2, the view-map check, once it
\* reaches the output-alias test of o, raises the output-aliased form of
\* BadViewMap for o exactly when o has no declared input alias, the values
\* of o and o2 share memory, and both are consumed downstream: each has a
\* client that is not a designated-output pseudo-client, at whatever
\* position of the output list of the graph it is designated.
C30_OutputAliasedIff ==
    [][\A ph \in {"py", "c"}, o \in {0, 1} :
          (/\ pc = ViewmapPc(ph)
           /\ Len(NodeOutputs(node)) = 2
           /\ ReachesOutputCheck(o)) =>
             (RaisesOutputAliased(o) <=>
                 /\ GoodAlias(env, node, o, storage_map, isarr) = {}
                 /\ MayShareMemory(isarr, storage_map[NodeOutputs(node)[o + 1]],
                                   storage_map[NodeOutputs(node)[2 - o]])
                 /\ ConsumedDownstream(NodeOutputs(node)[o + 1])
                 /\ ConsumedDownstream(NodeOutputs(node)[2 - o]))]_vars

\* v has no clients: no node consumes it and it is not a designated output
Unused(v) == Clients(env, v) = {}

VisitedEntries == ReasonChecks(env.reasons, OrderOutputs(order))

\* both variables of the entry have a value in r_vals
EntryEvaluated(c) == c.r \in DOMAIN r_vals /\ c.new_r \in DOMAIN r_vals

\* the entry fails: the types differ or the values are not approximately equal
EntryFails(c) ==
    \/ TypeOf[c.r] # TypeOf[c.new_r]
    \/ ~ValuesEqApprox(mem, r_vals[c.r], r_vals[c.new_r])

\* C32: in the bad-optimization check, the first visited reason-chain entry
\* (reason, old_r) of a variable new_r whose types differ or whose two
\* r_vals are not approximately equal makes the check raise BadOptimization
\* carrying old_r, new_r, both values and the reason.
C32_FailureIsBadOptimization ==
    [][pc = "find_bad_optimizations" =>
          \A i \in DOMAIN VisitedEntries :
             (/\ \A j \in 1..i : EntryEvaluated(VisitedEntries[j])
              /\ \A j \in 1..(i - 1) : ~EntryFails(VisitedEntries[j])
              /\ EntryFails(VisitedEntries[i]))
             => LET c == VisitedEntries[i]
                IN  err' = BadOptimization(mem, c.r, c.new_r, r_vals[c.r],
                                           r_vals[c.new_r], c.reason)]_vars

\* the result of each shipped variant on the input of the check
Result0 == FindBadOptimizations0(order, env.reasons, r_vals, mem)
Results1 == FindBadOptimizations1(order, env.reasons, r_vals, mem)
Result2 == FindBadOptimizations2(env, order, r_vals, mem)

\* C33: the check f() runs is _find_bad_optimizations0, and on every input
\* of the check the three variants agree on rejection: variant 0 raises an
\* error exactly when variant 1 does (in whatever order it iterates its
\* sets) and exactly when variant 2 does.
C33_VariantsAgree ==
    /\ [](pc = "find_bad_optimizations" =>
            /\ \A x \in Results1 : (x # NoErr) <=> (Result0 # NoErr)
            /\ (Result2 # NoErr) <=> (Result0 # NoErr))
    /\ [][pc = "find_bad_optimizations" =>
             IF Result0 # NoErr THEN pc' = "raised" /\ err' = Result0
             ELSE pc' = "transfer" /\ err' = err]_vars

\* f() got past the transfer of its inputs to r_vals (lines 801-811)
AfterTransfer == OwnerLess \subseteq DOMAIN r_vals

\* the cell of r holds the copy made for the node under evaluation
\* (line 826 or line 853)
HoldsInputCopy(r) ==
    /\ r \in Range(NodeInputs(env, node))
    /\ storage_map[r].id \in {<<"in1", node, r>>, <<"in2", node, r>>}

\* C34 as stated: after f() raised, the cell of every graph input holds the
\* object, with the content, the caller had placed in it before the call.
C34_InputsKeptOnError ==
    pc = "raised" =>
       \A r \in OwnerLess :
          /\ storage_map[r] = HeldAtCall(r)
          /\ storage_map[r] # NoneRef => ContentOf(mem, storage_map[r]) = ContentAtCall(r)

\* C34, amended: when f() raises past the transfer of its inputs and
\* before the transfer of the results, the cell of every graph input is
\* then empty or holds the copy made for the node under evaluation, never
\* the object the caller had placed in it.
C34_InputsConsumedOnError ==
    [][(pc \notin {"start", "transfer"} /\ pc' = "raised") =>
          \A r \in OwnerLess :
             /\ storage_map'[r] = NoneRef \/ HoldsInputCopy(r)'
             /\ storage_map'[r] # HeldAtCall(r)]_vars

C34_Witness ==
    /\ pc = "raised"
    /\ AfterTransfer
    /\ err.kind = "BadDestroyMap"
    /\ HoldsInputCopy("x")
    /\ storage_map["y"] = NoneRef
    /\ HeldAtCall("y") # NoneRef

\* the step is a call of accept on the linker self with the graph e
AcceptCalled(self, e) ==
    /\ accepted' # accepted
    /\ accepted'.self = self
    /\ accepted'.env = e

\* C35: accept(env, no_recycling) on a linker that is not bound, or bound
\* to env, binds it to env and returns it; on a linker bound to another
\* graph it returns a new linker with the same maker, bound to env, and
\* leaves the original linker as it was.
C35_Accept ==
    [][\A self \in DOMAIN linkers, e \in LinkerEnvs :
          AcceptCalled(self, e) =>
             IF linkers[self].env \in {"None", e}
             THEN /\ accepted'.error = ""
                  /\ accepted'.ret = self
                  /\ linkers'[self].env = e
                  /\ linkers'[self].no_recycling = accepted'.no_recycling
             ELSE /\ accepted'.error = ""
                  /\ accepted'.ret \in DOMAIN linkers' \ DOMAIN linkers
                  /\ linkers'[accepted'.ret].env = e
                  /\ linkers'[accepted'.ret].maker = linkers[self].maker
                  /\ linkers'[self] = linkers[self]]_vars

====
